---- MODULE Spec2Model ----
(***************************************************************************)
(* A model of the CSMS trade-actions scraper (src/scraper): the            *)
(* classification cache (cache.py), the classifier's cache path            *)
(* (classify.py), the keyword prefilter (prefilter.py), the smart          *)
(* truncation (truncate.py), the bulletin fetcher (crawl.py) and the       *)
(* pipeline that runs them (main.py).                                      *)
(*                                                                         *)
(* Python strings are sequences of one-character strings.  A JSON document *)
(* is a sequence of tokens <<kind, lexeme>>; insignificant white space     *)
(* (the indent=2 of json.dumps) is not represented.  Python values that    *)
(* come out of json.loads are records [t |-> tag, v |-> sequence]; Python  *)
(* None is the value JSON null loads to.                                   *)
(***************************************************************************)
EXTENDS Integers, Sequences, FiniteSets, TLC

VARIABLES
    cacheDir,       \* CACHE_CLASSIFICATIONS_DIR: [exists, files: key -> content]
    promptVersion,  \* config.PROMPT_VERSION of the running build
    last,           \* the last cache/classify call and what it returned
    stored,         \* history: <<text, model, version>> -> result of the latest store since the last clear
    apiKeySet,      \* os.environ holds a non-empty ANTHROPIC_API_KEY
    pfIn,           \* prefilter: the list of entries handed in
    pfOut,          \* prefilter: the last call on pfIn and what it returned
    trIn,           \* truncation: the text handed in and the enabled flag
    trOut,          \* truncation: whether truncate_text has returned, and the text returned
    fetchSt,        \* fetch_entries: the entries, the loop index, the errors, the phase
    textCache,      \* CACHE_TEXTS_DIR: csms_id -> text
    rawCache,       \* CACHE_RAW_DIR: key of a URL -> page
    trace,          \* history: the GETs, sleeps and cache accesses of the fetcher, in order,
                    \* and in a run of main the stages it went through
    mainSt,         \* main: its arguments, its position (pc) and its local variables
    exSt            \* extract_all_entries: its arguments, the loop index, its local variables

cacheVars == <<cacheDir, promptVersion, last, stored>>
classifyVars == <<apiKeySet>>
pfVars == <<pfIn, pfOut>>
trVars == <<trIn, trOut>>
crawlVars == <<fetchSt, textCache, rawCache, trace>>
mainVars == <<mainSt>>
extractVars == <<exSt>>
vars == <<cacheVars, classifyVars, pfVars, trVars, crawlVars, mainVars, extractVars>>

\* the variables a component's steps leave alone
outsideCache == <<classifyVars, pfVars, trVars, crawlVars, mainVars, extractVars>>
outsideClassify == <<pfVars, trVars, crawlVars, mainVars, extractVars>>
outsidePrefilter == <<cacheVars, classifyVars, trVars, crawlVars, mainVars, extractVars>>
outsideTruncate == <<cacheVars, classifyVars, pfVars, crawlVars, mainVars, extractVars>>
outsideCrawl == <<cacheVars, classifyVars, pfVars, trVars, mainVars, extractVars>>
outsideMain == <<pfVars, trVars, extractVars>>
outsideExtract == <<cacheVars, classifyVars, pfVars, trVars, crawlVars, mainVars>>

PfIdle == pfIn = <<>> /\ pfOut = [op |-> "none"]
TrIdle == trIn = [text |-> <<>>, enabled |-> TRUE] /\ trOut = [done |-> FALSE, result |-> <<>>]

\* main is not running
NotRun ==
    [pc |-> "idle", args |-> <<>>, source |-> <<>>, all_entries |-> <<>>,
     entries_in_range |-> <<>>, filtered_entries |-> <<>>, prefilter_skipped |-> 0,
     capped_entries |-> <<>>, fetch_errors |-> <<>>, entries_with_text |-> <<>>, i |-> 1,
     all_actions |-> <<>>, classification_errors |-> <<>>,
     total_input_tokens |-> 0, total_output_tokens |-> 0,
     cache_hits |-> 0, new_api_calls |-> 0, output |-> <<>>, status |-> "",
     run |-> 1, first |-> <<>>]
MainIdle == mainSt = NotRun

\* extract_all_entries has not been called
ExtractIdle == exSt = [phase |-> "idle"]

-----------------------------------------------------------------------------
(* Strings                                                                 *)

Max(a, b) == IF a >= b THEN a ELSE b
Min(a, b) == IF a <= b THEN a ELSE b

\* str.lower() on one character (the letters the model's alphabets use)
LowerChar(c) ==
    CASE c = "A" -> "a" [] c = "D" -> "d" [] c = "H" -> "h" [] c = "Q" -> "q"
      [] c = "R" -> "r" [] c = "S" -> "s" [] c = "T" -> "t" [] c = "U" -> "u"
      [] c = "Y" -> "y" [] c = "X" -> "x" [] c = "P" -> "p"
      [] OTHER -> c

\* str.lower()
Lower(s) == [i \in 1..Len(s) |-> LowerChar(s[i])]

\* s[a:b] for 0 <= a, with Python's clipping; b may be negative (counted from the end)
Slice(s, a, b) ==
    LET n  == Len(s)
        hi == IF b < 0 THEN Max(0, n + b) ELSE Min(b, n)
        lo == Min(a, n)
    IN  IF lo >= hi THEN <<>> ELSE SubSeq(s, lo + 1, hi)

\* needle in s
Contains(s, needle) ==
    \E i \in 0..(Len(s) - Len(needle)) : SubSeq(s, i + 1, i + Len(needle)) = needle

-----------------------------------------------------------------------------
(* JSON: json.dumps / json.loads                                           *)

None == [t |-> "null", v |-> <<>>]
JNum(n) == [t |-> "num", v |-> <<n>>]
JStr(s) == [t |-> "str", v |-> <<s>>]
JArr(elems) == [t |-> "arr", v |-> elems]
JObj(pairs) == [t |-> "obj", v |-> pairs]

IsList(x) == x.t = "arr"
IsDict(x) == x.t = "obj"

Punct(c) == <<"punct", c>>

RECURSIVE json_dumps(_)
RECURSIVE DumpElems(_, _)
RECURSIVE DumpMembers(_, _)

DumpElems(elems, i) ==
    IF i > Len(elems) THEN <<>>
    ELSE (IF i > 1 THEN <<Punct(",")>> ELSE <<>>)
         \o json_dumps(elems[i]) \o DumpElems(elems, i + 1)

DumpMembers(pairs, i) ==
    IF i > Len(pairs) THEN <<>>
    ELSE (IF i > 1 THEN <<Punct(",")>> ELSE <<>>)
         \o <<<<"str", pairs[i][1]>>, Punct(":")>>
         \o json_dumps(pairs[i][2]) \o DumpMembers(pairs, i + 1)

json_dumps(x) ==
    CASE x.t = "null" -> <<<<"lit", "null">>>>
      [] x.t = "num"  -> <<<<"num", x.v[1]>>>>
      [] x.t = "str"  -> <<<<"str", x.v[1]>>>>
      [] x.t = "arr"  -> <<Punct("[")>> \o DumpElems(x.v, 1) \o <<Punct("]")>>
      [] x.t = "obj"  -> <<Punct("{")>> \o DumpMembers(x.v, 1) \o <<Punct("}")>>

\* dict[key] = val while parsing: a repeated key keeps its place and takes the last value
SetMember(pairs, key, val) ==
    IF \E j \in 1..Len(pairs) : pairs[j][1] = key
    THEN [j \in 1..Len(pairs) |-> IF pairs[j][1] = key THEN <<key, val>> ELSE pairs[j]]
    ELSE Append(pairs, <<key, val>>)

ParseFail == [ok |-> FALSE, val |-> None, next |-> 0]

RECURSIVE ParseValue(_, _)
RECURSIVE ParseElems(_, _, _)
RECURSIVE ParseMembers(_, _, _)

ParseElems(toks, i, acc) ==
    LET r == ParseValue(toks, i) IN
    IF ~r.ok \/ r.next > Len(toks) THEN ParseFail
    ELSE IF toks[r.next] = Punct(",") THEN ParseElems(toks, r.next + 1, Append(acc, r.val))
    ELSE IF toks[r.next] = Punct("]")
         THEN [ok |-> TRUE, val |-> JArr(Append(acc, r.val)), next |-> r.next + 1]
    ELSE ParseFail

ParseMembers(toks, i, acc) ==
    IF i + 1 > Len(toks) \/ toks[i][1] # "str" \/ toks[i + 1] # Punct(":") THEN ParseFail
    ELSE LET r == ParseValue(toks, i + 2) IN
         IF ~r.ok \/ r.next > Len(toks) THEN ParseFail
         ELSE IF toks[r.next] = Punct(",")
              THEN ParseMembers(toks, r.next + 1, SetMember(acc, toks[i][2], r.val))
         ELSE IF toks[r.next] = Punct("}")
              THEN [ok |-> TRUE, val |-> JObj(SetMember(acc, toks[i][2], r.val)),
                    next |-> r.next + 1]
         ELSE ParseFail

ParseValue(toks, i) ==
    IF i > Len(toks) THEN ParseFail
    ELSE LET tok == toks[i] IN
         CASE tok = <<"lit", "null">> -> [ok |-> TRUE, val |-> None, next |-> i + 1]
           [] tok[1] = "num" -> [ok |-> TRUE, val |-> JNum(tok[2]), next |-> i + 1]
           [] tok[1] = "str" -> [ok |-> TRUE, val |-> JStr(tok[2]), next |-> i + 1]
           [] tok = Punct("[") ->
                IF i + 1 <= Len(toks) /\ toks[i + 1] = Punct("]")
                THEN [ok |-> TRUE, val |-> JArr(<<>>), next |-> i + 2]
                ELSE ParseElems(toks, i + 1, <<>>)
           [] tok = Punct("{") ->
                IF i + 1 <= Len(toks) /\ toks[i + 1] = Punct("}")
                THEN [ok |-> TRUE, val |-> JObj(<<>>), next |-> i + 2]
                ELSE ParseMembers(toks, i + 1, <<>>)
           [] OTHER -> ParseFail

\* json.loads: [ok |-> FALSE] stands for json.JSONDecodeError
json_loads(toks) ==
    LET r == ParseValue(toks, 1) IN
    IF r.ok /\ r.next = Len(toks) + 1 THEN [ok |-> TRUE, val |-> r.val]
    ELSE [ok |-> FALSE, val |-> None]

-----------------------------------------------------------------------------
(* cache.py                                                                *)

\* config.DEFAULT_MODEL and config.SONNET_MODEL, abbreviated to their family names
DEFAULT_MODEL == <<"h", "a", "i", "k", "u">>
SONNET_MODEL == <<"s", "o", "n", "n", "e", "t">>
Models == {DEFAULT_MODEL, SONNET_MODEL}

\* config.PROMPT_VERSION is "v1"; a bump of the schema version gives "v2", "v3", ...
MaxBumps == 1
VersionDigits == <<"1", "2", "3", "4">>
VersionNo(n) == <<"v", VersionDigits[n]>>
PROMPT_VERSION == VersionNo(1)
Versions == {VersionNo(n) : n \in 1..(MaxBumps + 1)}

\* the texts the cache is exercised with; the second holds the key's separator
Texts == {<<"a">>, <<"a", "|", "|", "h", "a", "i", "k", "u">>}

Triples == Texts \X Models \X Versions

\* hashlib.sha256(payload).hexdigest(): 64 hex digits.  The digest is taken to be
\* collision free, also when cut to a prefix: a hex string is kept as the payload
\* it is the digest of and the number of leading digits it holds.
Sha256HexLen == 64
KeyLen == 24
Sha256Hex(payload) == [digest_of |-> payload, digits |-> Sha256HexLen]

\* hexdigest[:n]
HexPrefix(hex, n) == [hex EXCEPT !.digits = Min(n, hex.digits)]

\* len(hexdigest)
HexLen(hex) == hex.digits

_cache_key_no_model(text, model, version) ==
    HexPrefix(Sha256Hex(text \o <<"|", "|">> \o <<"|", "|">> \o version), KeyLen)

_cache_key_no_version(text, model, version) ==
    HexPrefix(Sha256Hex(text \o <<"|", "|">> \o model \o <<"|", "|">>), KeyLen)

\* _cache_key(text, model), with the PROMPT_VERSION of the build as a parameter
_cache_key(text, model, version) ==
    LET payload == text \o <<"|", "|">> \o model \o <<"|", "|">> \o version
    IN  HexPrefix(Sha256Hex(payload), KeyLen)

\* The directory: whether it exists, and its *.json files by stem.  The content of
\* a file either decodes as UTF-8 into the tokens toks or does not decode.
NoFiles == [k \in {} |-> None]
FileText(toks) == [readable |-> TRUE, decodable |-> TRUE, toks |-> toks]
Undecodable == [readable |-> TRUE, decodable |-> FALSE, toks |-> <<>>]
\* a path that exists and that read_text cannot read (PermissionError,
\* IsADirectoryError, an I/O error): the read raises an OSError
Unreadable == [readable |-> FALSE, decodable |-> FALSE, toks |-> <<>>]

\* Python 3: EnvironmentError and IOError are names of OSError
IsOSError(exc) == exc \in {"OSError", "EnvironmentError"}

Unlink(files, key) == [k \in (DOMAIN files) \ {key} |-> files[k]]
WriteFile(files, key, content) ==
    [k \in (DOMAIN files) \cup {key} |-> IF k = key THEN content ELSE files[k]]

\* no batch fetch under way, both fetch caches empty
CrawlIdle ==
    /\ fetchSt = [input |-> <<>>, entries |-> <<>>, i |-> 1, errors |-> <<>>, phase |-> "idle"]
    /\ textCache = NoFiles
    /\ rawCache = NoFiles
    /\ trace = <<>>

\* get_cached: what it returns (None on a miss), the exception it lets out, the directory after
get_cached(dir, text, model, version) ==
    LET key == _cache_key(text, model, version) IN
    IF dir.exists /\ key \in DOMAIN dir.files
    THEN LET content == dir.files[key] IN
         IF ~content.readable
         THEN [ret |-> None, raised |-> "OSError", dir |-> dir]
         ELSE IF ~content.decodable
         THEN [ret |-> None, raised |-> "UnicodeDecodeError", dir |-> dir]
         ELSE LET parsed == json_loads(content.toks) IN
              IF parsed.ok
              THEN [ret |-> parsed.val, raised |-> "", dir |-> dir]
              ELSE [ret |-> None, raised |-> "",
                    dir |-> [dir EXCEPT !.files = Unlink(@, key)]]
    ELSE [ret |-> None, raised |-> "", dir |-> dir]

set_cached_keep_first(dir, text, model, version, result) ==
    LET key == _cache_key(text, model, version) IN
    IF dir.exists /\ key \in DOMAIN dir.files THEN dir
    ELSE [exists |-> TRUE,
          files |-> WriteFile(dir.files, key, FileText(json_dumps(result)))]

\* set_cached: mkdir(parents=True, exist_ok=True), then write_text(json.dumps(result))
set_cached(dir, text, model, version, result) ==
    LET key == _cache_key(text, model, version)
    IN  [exists |-> TRUE,
         files |-> WriteFile(dir.files, key, FileText(json_dumps(result)))]

RECURSIVE ClearLoop(_, _, _)
ClearLoop(files, todo, count) ==
    IF todo = {} THEN [count |-> count, files |-> files]
    ELSE LET f == CHOOSE x \in todo : TRUE
         IN  ClearLoop(Unlink(files, f), todo \ {f}, count + 1)

clear_cache_miscount(dir) ==
    IF ~dir.exists THEN [count |-> 0, dir |-> dir]
    ELSE LET r == ClearLoop(dir.files, DOMAIN dir.files, 1)
         IN  [count |-> r.count, dir |-> [dir EXCEPT !.files = r.files]]

\* clear_cache: the count it returns and the directory after
clear_cache(dir) ==
    IF ~dir.exists THEN [count |-> 0, dir |-> dir]
    ELSE LET r == ClearLoop(dir.files, DOMAIN dir.files, 0)
         IN  [count |-> r.count, dir |-> [dir EXCEPT !.files = r.files]]

-----------------------------------------------------------------------------
(* The results stored, and the records an outside writer may leave          *)

TariffDict == JObj(<<<<"action_type", JStr("tariff")>>>>)
BogusDict == JObj(<<<<"action_type", JStr("bogus")>>>>)

Results == {JArr(<<>>), JArr(<<TariffDict>>), JArr(<<BogusDict, TariffDict>>)}
OneResult == {JArr(<<TariffDict>>)}

\* a record left under the schema version before "v1"
StaleKey == _cache_key(<<"a">>, DEFAULT_MODEL, <<"v", "0">>)
StaleFiles == WriteFile(NoFiles, StaleKey, FileText(json_dumps(JArr(<<>>))))

\* what an outside writer (an interrupted write, an editor, a failing disk) leaves
ForeignContents ==
    { FileText(<<<<"junk", "NOT">>, <<"junk", "VALID">>, Punct("{")>>),
      FileText(<<>>),
      FileText(SubSeq(json_dumps(JArr(<<TariffDict>>)), 1, 4)),
      Undecodable }

MaxForeign == 1

Malformed(content) == ~content.decodable \/ ~json_loads(content.toks).ok

-----------------------------------------------------------------------------
(* The cache's operations as actions                                        *)

\* last: the call (op, text, model, entry), the record under (text, model) before it
\* (pre), and what the call did: the value returned by a lookup (ret), the count
\* returned by a clear, the exception let out (raised), and for classify the
\* returned triple (actions, input_tokens, output_tokens), the number of service
\* calls (svc) and of reads of the credential (env), and what the service answered
\* when classify_entry called it (answer)
NoCall == [op |-> "none", text |-> <<>>, model |-> <<>>, entry |-> <<>>, pre |-> <<>>,
           ret |-> None, count |-> 0, raised |-> "",
           actions |-> <<>>, input_tokens |-> 0, output_tokens |-> 0,
           svc |-> 0, env |-> 0, answer |-> <<>>]

StoredNothing == [x \in Triples |-> None]

\* the record under (text, model) before a call: <<>> when there is none
RecordOf(dir, text, model, version) ==
    LET key == _cache_key(text, model, version) IN
    IF dir.exists /\ key \in DOMAIN dir.files THEN <<dir.files[key]>> ELSE <<>>

CacheInit ==
    /\ cacheDir \in { [exists |-> FALSE, files |-> NoFiles],
                      [exists |-> TRUE, files |-> NoFiles],
                      [exists |-> TRUE, files |-> StaleFiles] }
    /\ promptVersion = PROMPT_VERSION
    /\ last = NoCall
    /\ stored = StoredNothing

\* no cache directory, and no cache operation called
CacheIdle ==
    /\ cacheDir = [exists |-> FALSE, files |-> NoFiles]
    /\ promptVersion = PROMPT_VERSION
    /\ last = NoCall
    /\ stored = StoredNothing

ClassifyIdle == apiKeySet = FALSE

StoreFrom(texts, results) ==
    \E text \in texts, model \in Models, result \in results :
        /\ cacheDir' = set_cached(cacheDir, text, model, promptVersion, result)
        /\ last' = [NoCall EXCEPT !.op = "store", !.text = text, !.model = model,
                                  !.pre = RecordOf(cacheDir, text, model, promptVersion)]
        /\ stored' = [stored EXCEPT ![<<text, model, promptVersion>>] = result]
        /\ UNCHANGED promptVersion

Lookup ==
    \E text \in Texts, model \in Models :
        LET r == get_cached(cacheDir, text, model, promptVersion) IN
        /\ cacheDir' = r.dir
        /\ last' = [NoCall EXCEPT !.op = "lookup", !.text = text, !.model = model,
                                  !.ret = r.ret, !.raised = r.raised,
                                  !.pre = RecordOf(cacheDir, text, model, promptVersion)]
        /\ UNCHANGED <<promptVersion, stored>>

Clear ==
    LET r == clear_cache(cacheDir) IN
    /\ cacheDir' = r.dir
    /\ last' = [NoCall EXCEPT !.op = "clear", !.count = r.count]
    /\ stored' = StoredNothing
    /\ UNCHANGED promptVersion

\* an outside writer replaces the record of (text, model) in an existing directory;
\* at most MaxForeign other records of the directory are an outside writer's
Corrupt ==
    \E text \in Texts, model \in Models, content \in ForeignContents :
        /\ cacheDir.exists
        /\ Cardinality({k \in DOMAIN cacheDir.files \ {_cache_key(text, model, promptVersion)} :
                           cacheDir.files[k] \in ForeignContents}) < MaxForeign
        /\ cacheDir' = [cacheDir EXCEPT
                          !.files = WriteFile(@, _cache_key(text, model, promptVersion), content)]
        /\ last' = [NoCall EXCEPT !.op = "corrupt", !.text = text, !.model = model]
        /\ UNCHANGED <<promptVersion, stored>>

\* the next build of the program carries the next PROMPT_VERSION
Bump ==
    /\ \E n \in 1..MaxBumps :
          /\ promptVersion = VersionNo(n)
          /\ promptVersion' = VersionNo(n + 1)
    /\ last' = [NoCall EXCEPT !.op = "bump"]
    /\ UNCHANGED <<cacheDir, stored>>

Store == StoreFrom(Texts, Results) /\ UNCHANGED outsideCache
LookupStep == Lookup /\ UNCHANGED outsideCache
ClearStep == Clear /\ UNCHANGED outsideCache

InitCache == CacheInit /\ ClassifyIdle /\ PfIdle /\ TrIdle /\ CrawlIdle /\ MainIdle /\ ExtractIdle
NextCache == Store \/ LookupStep \/ ClearStep
SpecCache == InitCache /\ [][NextCache]_vars

CorruptStore == StoreFrom(Texts, OneResult) /\ UNCHANGED outsideCache
CorruptStep == Corrupt /\ UNCHANGED outsideCache

\* the cache with an outside writer
NextCorrupt == CorruptStore \/ LookupStep \/ CorruptStep
SpecCorrupt == InitCache /\ [][NextCorrupt]_vars

\* The cache called with any strings: texts and model names that hold the characters
\* of the key's separator
KeyPairs ==
    { <<<<"a">>, <<"c">>>>,
      <<<<"a", "|", "|", "b">>, <<"c">>>>,
      <<<<"a">>, <<"b", "|", "|", "c">>>>,
      <<<<"a", "|">>, <<"c">>>>,
      <<<<"a">>, <<"|", "c">>>> }
PairTriples == {<<pair[1], pair[2], PROMPT_VERSION>> : pair \in KeyPairs}
PairResults == {JArr(<<>>), JArr(<<TariffDict>>)}

PairInit ==
    /\ cacheDir \in { [exists |-> FALSE, files |-> NoFiles], [exists |-> TRUE, files |-> NoFiles] }
    /\ promptVersion = PROMPT_VERSION
    /\ last = NoCall
    /\ stored = [x \in PairTriples |-> None]

\* set_cached(text, model, result)
StorePair ==
    /\ \E pair \in KeyPairs, result \in PairResults :
        \E text \in {pair[1]}, model \in {pair[2]} :
          /\ cacheDir' = set_cached(cacheDir, text, model, promptVersion, result)
          /\ last' = [NoCall EXCEPT !.op = "store", !.text = text, !.model = model,
                                    !.pre = RecordOf(cacheDir, text, model, promptVersion)]
          /\ stored' = [stored EXCEPT ![<<text, model, promptVersion>>] = result]
          /\ UNCHANGED promptVersion
    /\ UNCHANGED outsideCache

\* get_cached(text, model)
LookupPair ==
    /\ \E pair \in KeyPairs :
        \E text \in {pair[1]}, model \in {pair[2]} :
          LET r == get_cached(cacheDir, text, model, promptVersion) IN
          /\ cacheDir' = r.dir
          /\ last' = [NoCall EXCEPT !.op = "lookup", !.text = text, !.model = model,
                                    !.ret = r.ret, !.raised = r.raised,
                                    !.pre = RecordOf(cacheDir, text, model, promptVersion)]
          /\ UNCHANGED <<promptVersion, stored>>
    /\ UNCHANGED outsideCache

InitPairs == PairInit /\ ClassifyIdle /\ PfIdle /\ TrIdle /\ CrawlIdle /\ MainIdle /\ ExtractIdle
NextPairs == StorePair \/ LookupPair
SpecPairs == InitPairs /\ [][NextPairs]_vars

BumpStep == Bump /\ UNCHANGED outsideCache

\* the cache across builds with successive schema versions
NextBump == CorruptStore \/ LookupStep \/ BumpStep
SpecBump == InitCache /\ [][NextBump]_vars

-----------------------------------------------------------------------------
(* classify.py                                                              *)

\* Optional[str]: <<>> is None, <<s>> is the string s
NoStr == <<>>
Some(s) == <<s>>

\* models.CsmsEntry, the fields classify reads
Entries ==
    { [csms_id |-> "64348288", title |-> "Aluminum Duties",
       govdelivery_url |-> Some("https://content.govdelivery.com/1"), lnks_gd_url |-> Some("https://lnks.gd/1")],
      [csms_id |-> "67557993", title |-> "ACE Reports",
       govdelivery_url |-> NoStr, lnks_gd_url |-> Some("https://lnks.gd/2")] }

\* dict.get(key, default)
Get(ad, key, default) ==
    IF \E j \in 1..Len(ad.v) : ad.v[j][1] = key
    THEN ad.v[CHOOSE j \in 1..Len(ad.v) : ad.v[j][1] = key][2]
    ELSE default

\* models.TradeAction.action_type: the Literal's values
ActionTypes == {"tariff", "quota", "embargo", "sanction", "duty", "exclusion",
                "suspension", "modification", "investigation", "other"}

\* _generate_action_id: "csms-<id>-<8 digits of sha256(<id>-<action_type>-<index>)>";
\* the digest is kept as the string it is taken of
_generate_action_id(entry, ad, index) ==
    <<"csms", entry.csms_id, <<entry.csms_id, Get(ad, "action_type", JStr("")), index>>>>

\* entry.govdelivery_url or entry.lnks_gd_url or ""
SourceUrl(entry) ==
    IF entry.govdelivery_url # NoStr /\ entry.govdelivery_url # Some("")
    THEN entry.govdelivery_url[1]
    ELSE IF entry.lnks_gd_url # NoStr /\ entry.lnks_gd_url # Some("")
    THEN entry.lnks_gd_url[1]
    ELSE ""

\* the body of the try in _parse_actions: whether TradeAction(...) is built without
\* an exception (ad is a dict, title is a str, action_type is one of the Literal's
\* values, effective_date is a str or None), and the record built
BuildsAction(ad, entry) ==
    /\ IsDict(ad)
    /\ Get(ad, "title", JStr(entry.title)).t = "str"
    /\ Get(ad, "action_type", JStr("other")).t = "str"
    /\ Get(ad, "action_type", JStr("other")).v[1] \in ActionTypes
    /\ Get(ad, "effective_date", None).t \in {"str", "null"}

TradeAction(ad, entry, index) ==
    [id |-> _generate_action_id(entry, ad, index),
     source_csms_id |-> <<"CSMS #", entry.csms_id>>,
     source_url |-> SourceUrl(entry),
     title |-> Get(ad, "title", JStr(entry.title)).v[1],
     action_type |-> Get(ad, "action_type", JStr("other")).v[1],
     effective_date |-> Get(ad, "effective_date", None)]

RECURSIVE ParseLoop(_, _, _, _)
ParseLoop(elems, entry, i, actions) ==
    IF i > Len(elems) THEN actions
    ELSE ParseLoop(elems, entry, i + 1,
                   IF BuildsAction(elems[i], entry)
                   THEN Append(actions, TradeAction(elems[i], entry, i - 1))
                   ELSE actions)

\* _parse_actions(action_dicts, entry): enumerate() of a list gives its elements, of
\* a dict or a str its keys or characters (none of which has .get, so each is
\* skipped), and of a number raises TypeError
_parse_actions(action_dicts, entry) ==
    CASE action_dicts.t = "arr" -> [actions |-> ParseLoop(action_dicts.v, entry, 1, <<>>), raised |-> ""]
      [] action_dicts.t \in {"obj", "str"} -> [actions |-> <<>>, raised |-> ""]
      [] OTHER -> [actions |-> <<>>, raised |-> "TypeError"]

\* The service's answer: a transport error, or content blocks (content is their
\* number) with token counts; text is the text of the first block.  The text
\* is a token sequence in which FenceJson stands for the markdown fence that opens a
\* json block (three backquotes and the word json) and Fence for three backquotes.
FenceJson == <<"fence", "json">>
Fence == <<"fence", "">>

\* the index of the first fence of s at or after index from (of the first json
\* fence when jsonOnly), or 0; three backquotes are found in either fence
FirstFence(s, from, jsonOnly) ==
    LET hits == {i \in from..Len(s) : s[i] = FenceJson \/ (~jsonOnly /\ s[i] = Fence)}
    IN  IF hits = {} THEN 0 ELSE CHOOSE i \in hits : \A j \in hits : i <= j

\* s.split(sep, 1)[1].split(Fence, 1)[0], sep being the fence at index open
Fenced(s, open) ==
    LET close == FirstFence(s, open + 1, FALSE)
    IN  IF close = 0 THEN SubSeq(s, open + 1, Len(s)) ELSE SubSeq(s, open + 1, close - 1)

\* the JSON text taken out of the answer
ExtractJson(raw_text) ==
    IF FirstFence(raw_text, 1, TRUE) # 0 THEN Fenced(raw_text, FirstFence(raw_text, 1, TRUE))
    ELSE IF FirstFence(raw_text, 1, FALSE) # 0 THEN Fenced(raw_text, FirstFence(raw_text, 1, FALSE))
    ELSE raw_text

Responses ==
    { [error |-> TRUE, content |-> 0, text |-> <<>>, input_tokens |-> 0,
       output_tokens |-> 0],
      [error |-> FALSE, content |-> 1, text |-> json_dumps(JArr(<<TariffDict>>)),
       input_tokens |-> 900, output_tokens |-> 120],
      [error |-> FALSE, content |-> 1, text |-> <<FenceJson>> \o json_dumps(JArr(<<>>)) \o <<Fence>>,
       input_tokens |-> 700, output_tokens |-> 4],
      [error |-> FALSE, content |-> 1, text |-> <<<<"junk", "Sorry">>>>,
       input_tokens |-> 700, output_tokens |-> 9],
      [error |-> FALSE, content |-> 1, text |-> json_dumps(TariffDict),
       input_tokens |-> 800, output_tokens |-> 60] }

ClassifyResult(actions, inp, out, raised, dir, svc, env) ==
    [actions |-> actions, input_tokens |-> inp, output_tokens |-> out, raised |-> raised,
     dir |-> dir, svc |-> svc, env |-> env]

classify_entry_always_calls(dir, keySet, entry, text, model, version, response) ==
    LET loaded == json_loads(ExtractJson(response.text))
        action_dicts == IF loaded.ok /\ IsList(loaded.val) THEN loaded.val ELSE JArr(<<>>)
        written == set_cached(dir, text, model, version, action_dicts)
    IN  ClassifyResult(_parse_actions(action_dicts, entry).actions, response.input_tokens,
                       response.output_tokens, "", written, 1, 1)

classify_entry_drops_bad_answer(dir, keySet, entry, text, model, version, response) ==
    LET hit == get_cached(dir, text, model, version)
        loaded == json_loads(ExtractJson(response.text))
    IN  IF hit.raised # ""
        THEN ClassifyResult(<<>>, 0, 0, hit.raised, hit.dir, 0, 0)
        ELSE IF hit.ret # None
        THEN ClassifyResult(_parse_actions(hit.ret, entry).actions, 0, 0,
                            _parse_actions(hit.ret, entry).raised, hit.dir, 0, 0)
        ELSE IF ~keySet
        THEN ClassifyResult(<<>>, 0, 0, "EnvironmentError", hit.dir, 0, 1)
        ELSE IF response.error
        THEN ClassifyResult(<<>>, 0, 0, "Exception", hit.dir, 1, 1)
        ELSE IF ~(loaded.ok /\ IsList(loaded.val))
        THEN ClassifyResult(<<>>, response.input_tokens, response.output_tokens, "",
                            hit.dir, 1, 1)
        ELSE ClassifyResult(_parse_actions(loaded.val, entry).actions,
                            response.input_tokens, response.output_tokens, "",
                            set_cached(hit.dir, text, model, version, loaded.val), 1, 1)

\* classify_entry(entry, text, model=model), response being what the service
\* answers if it is called
classify_entry(dir, keySet, entry, text, model, version, response) ==
    LET hit == get_cached(dir, text, model, version) IN
    IF hit.raised # ""
    THEN ClassifyResult(<<>>, 0, 0, hit.raised, hit.dir, 0, 0)
    ELSE IF hit.ret # None
    THEN LET parsed == _parse_actions(hit.ret, entry)
         IN  ClassifyResult(parsed.actions, 0, 0, parsed.raised, hit.dir, 0, 0)
    ELSE IF ~keySet
    THEN ClassifyResult(<<>>, 0, 0, "EnvironmentError", hit.dir, 0, 1)
    ELSE IF response.error
    THEN ClassifyResult(<<>>, 0, 0, "Exception", hit.dir, 1, 1)
    ELSE IF response.content = 0
    THEN ClassifyResult(<<>>, 0, 0, "IndexError", hit.dir, 1, 1)
    ELSE LET loaded == json_loads(ExtractJson(response.text))
             action_dicts == IF loaded.ok /\ IsList(loaded.val) THEN loaded.val
                             ELSE JArr(<<>>)
             written == set_cached(hit.dir, text, model, version, action_dicts)
         IN  ClassifyResult(_parse_actions(action_dicts, entry).actions,
                            response.input_tokens, response.output_tokens, "",
                            written, 1, 1)

\* the bulletin text classify_entry is called with
ClassifyTexts == {<<"a">>}

Classify ==
    \E entry \in Entries, text \in ClassifyTexts, model \in Models, response \in Responses :
        LET r == classify_entry(cacheDir, apiKeySet, entry, text, model, promptVersion,
                                response) IN
        /\ cacheDir' = r.dir
        /\ last' = [NoCall EXCEPT !.op = "classify", !.text = text, !.model = model,
                                  !.entry = <<entry>>,
                                  !.pre = RecordOf(cacheDir, text, model, promptVersion),
                                  !.actions = r.actions, !.input_tokens = r.input_tokens,
                                  !.output_tokens = r.output_tokens, !.raised = r.raised,
                                  !.svc = r.svc, !.env = r.env,
                                  !.answer = IF r.svc = 1 THEN <<response>> ELSE <<>>]
        /\ stored' = IF r.dir = cacheDir THEN stored
                     ELSE [stored EXCEPT ![<<text, model, promptVersion>>] =
                              get_cached(r.dir, text, model, promptVersion).ret]
        /\ UNCHANGED <<promptVersion, apiKeySet>>
        /\ UNCHANGED outsideClassify

\* the environment gains or loses ANTHROPIC_API_KEY between calls
SetApiKey ==
    /\ apiKeySet' = ~apiKeySet
    /\ last' = [NoCall EXCEPT !.op = "setenv"]
    /\ UNCHANGED <<cacheDir, promptVersion, stored>>
    /\ UNCHANGED outsideClassify

\* the cache is populated before classify is called
Prepopulate == StoreFrom(ClassifyTexts, Results) /\ UNCHANGED outsideCache

InitClassify == CacheInit /\ apiKeySet \in BOOLEAN /\ PfIdle /\ TrIdle /\ CrawlIdle /\ MainIdle /\ ExtractIdle
NextClassify == Prepopulate \/ Classify \/ SetApiKey
SpecClassify == InitClassify /\ [][NextClassify]_vars

\* Records that are JSON and no array, as an outside writer may leave them: null, a
\* number, an object, a string
NonArrays == {None, JNum(7), TariffDict, JStr("x")}

\* an outside writer replaces the record of (text, model) by one of them
Plant ==
    /\ \E text \in ClassifyTexts, model \in Models, value \in NonArrays :
          /\ cacheDir.exists
          /\ cacheDir' = [cacheDir EXCEPT
                            !.files = WriteFile(@, _cache_key(text, model, promptVersion),
                                                FileText(json_dumps(value)))]
          /\ last' = [NoCall EXCEPT !.op = "corrupt", !.text = text, !.model = model]
    /\ UNCHANGED <<promptVersion, stored, apiKeySet>>
    /\ UNCHANGED outsideClassify

\* get_cached(text, model) of a text classify is called with
LookupPlanted ==
    /\ \E text \in ClassifyTexts, model \in Models :
          LET r == get_cached(cacheDir, text, model, promptVersion) IN
          /\ cacheDir' = r.dir
          /\ last' = [NoCall EXCEPT !.op = "lookup", !.text = text, !.model = model,
                                    !.ret = r.ret, !.raised = r.raised,
                                    !.pre = RecordOf(cacheDir, text, model, promptVersion)]
    /\ UNCHANGED <<promptVersion, stored, apiKeySet>>
    /\ UNCHANGED outsideClassify

NextPlanted == Plant \/ LookupPlanted \/ Classify
SpecPlanted == InitClassify /\ [][NextPlanted]_vars

-----------------------------------------------------------------------------
(* config.TRADE_KEYWORDS and prefilter.py                                   *)

\* config.TRADE_KEYWORDS, three of its fifty-odd entries: a lower-case word, an
\* upper-case abbreviation and a keyword of two words
TRADE_KEYWORDS ==
    << <<"d", "u", "t", "y">>,
       <<"T", "R", "Q">>,
       <<"a", "u", "t", "o", " ", "p", "a", "r", "t", "s">> >>

\* models.CsmsEntry, the fields the prefilter reads; full_text is Optional[str]
PfEntry(id, title, full_text) == [csms_id |-> id, title |-> title, full_text |-> full_text]

RECURSIVE AnyKeywordIn(_, _)
AnyKeywordIn(text, k) ==
    IF k > Len(TRADE_KEYWORDS) THEN FALSE
    ELSE IF Contains(text, Lower(TRADE_KEYWORDS[k])) THEN TRUE
    ELSE AnyKeywordIn(text, k + 1)

passes_keyword_filter_case_sensitive(entry) ==
    LET text == IF entry.full_text # NoStr /\ entry.full_text # Some(<<>>)
                THEN entry.title \o <<" ">> \o entry.full_text[1]
                ELSE entry.title
    IN  \E k \in 1..Len(TRADE_KEYWORDS) : Contains(text, TRADE_KEYWORDS[k])

\* passes_keyword_filter(entry)
passes_keyword_filter(entry) ==
    LET text == IF entry.full_text # NoStr /\ entry.full_text # Some(<<>>)
                THEN Lower(entry.title) \o <<" ">> \o Lower(entry.full_text[1])
                ELSE Lower(entry.title)
    IN  AnyKeywordIn(text, 1)

\* the loop of apply_prefilter from entry i on: an entry that passes is appended to
\* passed, one that does not is counted in skipped
PrefilterLoop(entries, i, passed, skipped) ==
    LET rest == SubSeq(entries, i, Len(entries))
        kept == SelectSeq(rest, passes_keyword_filter)
    IN  [passed |-> passed \o kept, skipped |-> skipped + (Len(rest) - Len(kept))]

apply_prefilter_counts_all(entries, enabled) ==
    IF ~enabled THEN [passed |-> entries, skipped |-> 0]
    ELSE [passed |-> PrefilterLoop(entries, 1, <<>>, 0).passed, skipped |-> Len(entries)]

\* apply_prefilter(entries, enabled=enabled): (filtered_entries, skipped_count)
apply_prefilter(entries, enabled) ==
    IF ~enabled THEN [passed |-> entries, skipped |-> 0]
    ELSE PrefilterLoop(entries, 1, <<>>, 0)

\* The entries the prefilter is exercised with: every title of at most MaxTitleLen
\* and every full text of at most MaxTextLen characters over PfAlphabet, and the
\* titles and texts of PfWords
MaxTitleLen == 3
MaxTextLen == 2
MaxEntries == 3
PfAlphabet == {"t", "R", "q", " "}

StringsUpTo(n) == UNION {[1..k -> PfAlphabet] : k \in 0..n}

PfWords ==
    { <<"a", "u", "t", "o">>, <<"p", "a", "r", "t", "s">>,
      <<"A", "u", "t", "o", " ", "P", "a", "r", "t", "s">>,
      <<"D", "U", "T", "Y">>, <<"d", "u", "t">>, <<"y">> }

PfTitles == StringsUpTo(MaxTitleLen) \cup PfWords
PfTexts == {NoStr} \cup {Some(s) : s \in StringsUpTo(MaxTextLen) \cup PfWords}

\* the entries of the lists handed to apply_prefilter
PfPool ==
    { PfEntry("64348288", <<"D", "U", "T", "Y">>, NoStr),
      PfEntry("64348299", <<"q">>, Some(<<"t", "R", "q">>)),
      PfEntry("67557993", <<"t", "R">>, Some(<<"q">>)),
      PfEntry("67558000", <<"R">>, NoStr) }

PfLists == UNION {[1..k -> PfPool] : k \in 0..MaxEntries}

PfInit ==
    /\ pfIn \in PfLists \cup {<<PfEntry("64348288", title, text)>> :
                                title \in PfTitles, text \in PfTexts}
    /\ pfOut = [op |-> "none"]

\* passes_keyword_filter on one entry of the list
Passes ==
    \E i \in 1..Len(pfIn) :
        /\ pfOut' = [op |-> "passes", index |-> i, ret |-> passes_keyword_filter(pfIn[i])]
        /\ UNCHANGED pfIn
        /\ UNCHANGED outsidePrefilter

ApplyPrefilter ==
    \E enabled \in BOOLEAN :
        LET r == apply_prefilter(pfIn, enabled) IN
        /\ pfOut' = [op |-> "apply", enabled |-> enabled, passed |-> r.passed,
                     skipped |-> r.skipped]
        /\ UNCHANGED pfIn
        /\ UNCHANGED outsidePrefilter

InitPrefilter == PfInit /\ CacheIdle /\ ClassifyIdle /\ TrIdle /\ CrawlIdle /\ MainIdle /\ ExtractIdle
NextPrefilter == Passes \/ ApplyPrefilter
SpecPrefilter == InitPrefilter /\ [][NextPrefilter]_vars

-----------------------------------------------------------------------------
(* truncate.py                                                              *)

CHARS_PER_TOKEN == 4
MAX_TRUNCATED_TOKENS == 3000
MAX_FULL_TEXT_TOKENS == 10000
KEYWORD_WINDOW_TOKENS == 300
INTRO_TOKENS == 1500

_token_estimate(text) == Len(text) \div CHARS_PER_TOKEN

\* "[NOTE: Truncated to first {INTRO_TOKENS} tokens. No keyword matches in
\* remainder.]\n\n"
NoMatchNote ==
    <<
       "[", "N", "O", "T", "E", ":", " ", "T", "r", "u", "n", "c", "a", "t", "e", "d",
       " ", "t", "o", " ", "f", "i", "r", "s", "t", " ", "1", "5", "0", "0", " ", "t",
       "o", "k", "e", "n", "s", ".", " ", "N", "o", " ", "k", "e", "y", "w", "o", "r",
       "d", " ", "m", "a", "t", "c", "h", "e", "s", " ", "i", "n", " ", "r", "e", "m",
       "a", "i", "n", "d", "e", "r", ".", "]", "\n", "\n" >>

\* "[NOTE: This text has been extracted from key sections of a longer document.
\* Some context may be missing.]\n\n"
ExtractedNote ==
    <<
       "[", "N", "O", "T", "E", ":", " ", "T", "h", "i", "s", " ", "t", "e", "x", "t",
       " ", "h", "a", "s", " ", "b", "e", "e", "n", " ", "e", "x", "t", "r", "a", "c",
       "t", "e", "d", " ", "f", "r", "o", "m", " ", "k", "e", "y", " ", "s", "e", "c",
       "t", "i", "o", "n", "s", " ", "o", "f", " ", "a", " ", "l", "o", "n", "g", "e",
       "r", " ", "d", "o", "c", "u", "m", "e", "n", "t", ".", " ", "S", "o", "m", "e",
       " ", "c", "o", "n", "t", "e", "x", "t", " ", "m", "a", "y", " ", "b", "e", " ",
       "m", "i", "s", "s", "i", "n", "g", ".", "]", "\n", "\n" >>

\* "\n\n[...]\n\n", written before every chunk
ChunkMark == <<"\n", "\n", "[", ".", ".", ".", "]", "\n", "\n">>

\* the offsets at which kw_lower occurs in text_lower
Occurrences(text_lower, kw_lower) ==
    {i \in 0..(Len(text_lower) - Len(kw_lower)) :
        /\ text_lower[i + 1] = kw_lower[1]
        /\ SubSeq(text_lower, i + 1, i + Len(kw_lower)) = kw_lower}

\* text_lower.find(kw_lower, start), given the occurrences
Find(occurrences, start) ==
    LET from == {i \in occurrences : i >= start}
    IN  IF from = {} THEN -1 ELSE CHOOSE i \in from : \A j \in from : i <= j

\* the while loop of one keyword
RECURSIVE KeywordWindows(_, _, _, _, _)
KeywordWindows(occurrences, keyword, rest_len, start, windows) ==
    LET idx == Find(occurrences, start)
        window_chars == KEYWORD_WINDOW_TOKENS * CHARS_PER_TOKEN
        win_start == Max(0, idx - window_chars)
        win_end == Min(rest_len, idx + Len(keyword) + window_chars)
    IN  IF idx = -1 THEN windows
        ELSE KeywordWindows(occurrences, keyword, rest_len, idx + Len(keyword),
                            Append(windows, <<win_start, win_end>>))

\* the for loop over TRADE_KEYWORDS
RECURSIVE AllWindows(_, _, _)
AllWindows(text_lower, k, windows) ==
    IF k > Len(TRADE_KEYWORDS) THEN windows
    ELSE AllWindows(text_lower, k + 1,
                    KeywordWindows(Occurrences(text_lower, Lower(TRADE_KEYWORDS[k])),
                                   TRADE_KEYWORDS[k], Len(text_lower), 0, windows))

\* tuple comparison of two windows
WindowLeq(a, b) == a[1] < b[1] \/ (a[1] = b[1] /\ a[2] <= b[2])

\* windows.sort()
RECURSIVE SortWindows(_)
SortWindows(windows) ==
    IF windows = <<>> THEN <<>>
    ELSE LET m == CHOOSE i \in 1..Len(windows) :
                      \A j \in 1..Len(windows) :
                          /\ WindowLeq(windows[i], windows[j])
                          /\ (windows[j] = windows[i] => i <= j)
             others == [j \in 1..(Len(windows) - 1) |->
                           IF j < m THEN windows[j] ELSE windows[j + 1]]
         IN  <<windows[m]>> \o SortWindows(others)

RECURSIVE MergeLoop_keeps_touching(_, _, _)
MergeLoop_keeps_touching(windows, i, merged) ==
    IF i > Len(windows) THEN merged
    ELSE LET ws == windows[i][1]
             we == windows[i][2]
             n == Len(merged)
         IN  IF ws < merged[n][2]
             THEN MergeLoop_keeps_touching(windows, i + 1,
                      [merged EXCEPT ![n] = <<merged[n][1], Max(merged[n][2], we)>>])
             ELSE MergeLoop_keeps_touching(windows, i + 1, Append(merged, <<ws, we>>))

\* the merge loop over windows[1:]
RECURSIVE MergeLoop(_, _, _)
MergeLoop(windows, i, merged) ==
    IF i > Len(windows) THEN merged
    ELSE LET ws == windows[i][1]
             we == windows[i][2]
             n == Len(merged)
         IN  IF ws <= merged[n][2]
             THEN MergeLoop(windows, i + 1,
                            [merged EXCEPT ![n] = <<merged[n][1], Max(merged[n][2], we)>>])
             ELSE MergeLoop(windows, i + 1, Append(merged, <<ws, we>>))

\* the merged window list of a remainder that has a keyword
MergedWindows(rest) ==
    LET windows == SortWindows(AllWindows(Lower(rest), 1, <<>>))
    IN  IF windows = <<>> THEN <<>> ELSE MergeLoop(windows, 2, <<windows[1]>>)

\* the output loop over merged: "".join(parts) once it ends
RECURSIVE BuildLoop(_, _, _, _, _)
BuildLoop(rest, merged, i, budget, parts) ==
    IF i > Len(merged) THEN parts
    ELSE LET chunk == Slice(rest, merged[i][1], merged[i][2])
         IN  IF Len(chunk) > budget
             THEN parts \o ChunkMark \o Slice(chunk, 0, budget)
             ELSE BuildLoop(rest, merged, i + 1, budget - (Len(chunk) + 10),
                            parts \o ChunkMark \o chunk)

truncate_text_strict_cap(text, enabled) ==
    LET intro == Slice(text, 0, INTRO_TOKENS * CHARS_PER_TOKEN)
        full_chars == MAX_FULL_TEXT_TOKENS * CHARS_PER_TOKEN
    IN  IF text = <<>> THEN <<>>
        ELSE IF ~enabled
        THEN IF Len(text) > full_chars THEN Slice(text, 0, full_chars) ELSE text
        ELSE IF _token_estimate(text) < MAX_TRUNCATED_TOKENS THEN text
        ELSE NoMatchNote \o intro

truncate_text_searches_whole_text(text, enabled) ==
    LET intro == Slice(text, 0, INTRO_TOKENS * CHARS_PER_TOKEN)
        merged == MergedWindows(text)
    IN  IF text = <<>> THEN <<>>
        ELSE IF ~enabled
        THEN Slice(text, 0, MAX_FULL_TEXT_TOKENS * CHARS_PER_TOKEN)
        ELSE IF _token_estimate(text) <= MAX_TRUNCATED_TOKENS THEN text
        ELSE IF merged = <<>> THEN NoMatchNote \o intro
        ELSE ExtractedNote \o intro

\* truncate_text(text, enabled=enabled)
truncate_text(text, enabled) ==
    LET estimated_tokens == _token_estimate(text)
        full_chars == MAX_FULL_TEXT_TOKENS * CHARS_PER_TOKEN
        max_chars == MAX_TRUNCATED_TOKENS * CHARS_PER_TOKEN
        intro_chars == INTRO_TOKENS * CHARS_PER_TOKEN
        intro == Slice(text, 0, intro_chars)
        rest == Slice(text, intro_chars, Len(text))
        merged == MergedWindows(rest)
    IN  IF text = <<>> THEN <<>>
        ELSE IF ~enabled
        THEN IF Len(text) > full_chars THEN Slice(text, 0, full_chars) ELSE text
        ELSE IF estimated_tokens <= MAX_TRUNCATED_TOKENS THEN text
        ELSE IF merged = <<>> THEN NoMatchNote \o intro
        ELSE ExtractedNote
                \o BuildLoop(rest, merged, 1, max_chars - Len(intro) - 200, intro)

\* The texts truncate_text is exercised with: filler of the lengths at which the
\* two caps fall, and documents made of a head, at most MaxOcc keyword occurrences
\* each after a gap of filler, and a tail of filler
MaxOcc == 4
Fill(n) == [i \in 1..n |-> "x"]
TrPlainLens == {0, 1, 12003, 12004, 40000, 40001}
TrWords == { <<"d", "u", "t", "y">>, <<"T", "r", "q">> }
TrHeads == { <<>>, Fill(6000), Fill(5998) \o <<"D", "U", "T", "Y">> }
TrGaps == {0, 2176, 2401}
TrTails == {1193, 1194}

RECURSIVE Body(_, _, _)
Body(gaps, word, k) ==
    IF k > Len(gaps) THEN <<>> ELSE Fill(gaps[k]) \o word \o Body(gaps, word, k + 1)

GapLists == UNION {[1..k -> TrGaps] : k \in 0..MaxOcc}

\* a keyword that begins in the intro region and ends in the remainder
TrStraddling == {Fill(5998) \o <<"D", "U", "T", "Y">> \o Fill(6002)}

TrTexts ==
    {Fill(n) : n \in TrPlainLens}
    \cup TrStraddling
    \cup {head \o Body(gaps, word, 1) \o Fill(tail) :
              head \in TrHeads, gaps \in GapLists, word \in TrWords, tail \in TrTails}

TrInit ==
    /\ trIn \in [text : TrTexts, enabled : BOOLEAN]
    /\ trOut = [done |-> FALSE, result |-> <<>>]

Truncate ==
    /\ ~trOut.done
    /\ trOut' = [done |-> TRUE, result |-> truncate_text(trIn.text, trIn.enabled)]
    /\ UNCHANGED trIn
    /\ UNCHANGED outsideTruncate

InitTruncate == TrInit /\ CacheIdle /\ ClassifyIdle /\ PfIdle /\ CrawlIdle /\ MainIdle /\ ExtractIdle
NextTruncate == Truncate
SpecTruncate == InitTruncate /\ [][NextTruncate]_vars

\* truncate_text called on the text it returned, with the same flag
TruncateAgain ==
    /\ trOut.done
    /\ trIn' = [text |-> trOut.result, enabled |-> trIn.enabled]
    /\ trOut' = [done |-> TRUE, result |-> truncate_text(trOut.result, trIn.enabled)]
    /\ UNCHANGED outsideTruncate

NextRetruncate == Truncate \/ TruncateAgain
SpecRetruncate == InitTruncate /\ [][NextRetruncate]_vars

\* The window list: long texts with an intro of filler and at most MaxWinOcc
\* occurrences of a keyword in the remainder, next to each other, with windows that
\* touch, with windows one character apart; the tail is shorter or longer than the
\* window radius
MaxWinOcc == 3
WinGaps == {0, 2400, 2401}
WinTails == {1199, 6000}
WinGapLists == UNION {[1..k -> WinGaps] : k \in 1..MaxWinOcc}
WinTexts ==
    {text \in {Fill(INTRO_TOKENS * CHARS_PER_TOKEN) \o Body(gaps, word, 1) \o Fill(tail) :
                  gaps \in WinGapLists, word \in TrWords, tail \in WinTails} :
        _token_estimate(text) > MAX_TRUNCATED_TOKENS}

WinInit ==
    /\ trIn \in [text : WinTexts, enabled : {TRUE}]
    /\ trOut = [done |-> FALSE, result |-> <<>>]

\* truncate_text on a long text with truncation enabled: the windows found by step 2
\* and the list merged by step 3 are kept with the result
TruncateLong ==
    /\ ~trOut.done
    /\ trIn.enabled /\ _token_estimate(trIn.text) > MAX_TRUNCATED_TOKENS
    /\ LET rest == Slice(trIn.text, INTRO_TOKENS * CHARS_PER_TOKEN, Len(trIn.text))
       IN  trOut' = [done |-> TRUE, result |-> truncate_text(trIn.text, trIn.enabled),
                     rest_len |-> Len(rest),
                     windows |-> AllWindows(Lower(rest), 1, <<>>),
                     merged |-> MergedWindows(rest)]
    /\ UNCHANGED trIn
    /\ UNCHANGED outsideTruncate

InitWindows == WinInit /\ CacheIdle /\ ClassifyIdle /\ PfIdle /\ CrawlIdle /\ MainIdle /\ ExtractIdle
NextWindows == TruncateLong
SpecWindows == InitWindows /\ [][NextWindows]_vars

-----------------------------------------------------------------------------
(* crawl.py                                                                 *)

MAX_RETRIES == 3
RETRY_BACKOFF_BASE == 10
\* REQUEST_DELAY_SECONDS = 1.5; every duration of the model is in tenths of a second
REQUEST_DELAY_TENTHS == 15
Tenths(seconds) == 10 * seconds
RawKeyLen == 16

crawl_cache_key_of_nothing(url) == HexPrefix(Sha256Hex(""), RawKeyLen)

\* crawl._cache_key(url)
crawl_cache_key(url) == HexPrefix(Sha256Hex(url), RawKeyLen)

\* one thing the fetcher did: a GET, a time.sleep, an access to one of its caches;
\* id is the entry in whose loop iteration it happened, got what a GET met
Ev(ev, arg) == [ev |-> ev, arg |-> arg, id |-> "", got |-> <<>>]
Tag(events, id) == [n \in 1..Len(events) |-> [events[n] EXCEPT !.id = id]]

\* a page: what _is_bulletin_page, _extract_text_from_bulletin and
\* _resolve_js_redirect make of its HTML; the text extracted is a sequence of
\* characters
BulletinPage(text) == [is_bulletin |-> TRUE, text |-> text, destination |-> NoStr]
RedirectPage(dest) == [is_bulletin |-> FALSE, text |-> <<>>, destination |-> Some(dest)]
StubPage == [is_bulletin |-> FALSE, text |-> <<>>, destination |-> NoStr]

\* Path.read_text(encoding="utf-8"): the file is opened with newline=None, so "\r\n"
\* and a lone "\r" are read as "\n" (write_text on this platform writes the characters
\* as they are)
read_text(content) ==
    LET out[k \in 0..Len(content)] ==
            IF k = 0 THEN <<>>
            ELSE IF content[k] = "\r" THEN Append(out[k - 1], "\n")
            ELSE IF content[k] = "\n" /\ k > 1 /\ content[k - 1] = "\r" THEN out[k - 1]
            ELSE Append(out[k - 1], content[k])
    IN  out[Len(content)]

\* read_text of a cached page: the text in the page read
read_page(html) == [html EXCEPT !.text = read_text(@)]

_is_bulletin_page(html) == html.is_bulletin
_extract_text_from_bulletin(html) == html.text
_resolve_js_redirect(html) == html.destination

\* what one session.get does: a response with a status, or an exception
Response(status, url, page) == [status |-> status, exc |-> "", url |-> url, page |-> page]
Raises(exc) == [status |-> 0, exc |-> exc, url |-> "", page |-> StubPage]
NoResp == <<>>

\* the wait after a 429 or 5xx
Backoff_flat(attempt) == RETRY_BACKOFF_BASE

Backoff(attempt) == RETRY_BACKOFF_BASE * (2^attempt)

RECURSIVE RetryLoop_retries_every_status(_, _, _, _)
RetryLoop_retries_every_status(url, plan, attempt, events) ==
    IF attempt >= MAX_RETRIES THEN [resp |-> NoResp, raised |-> "", events |-> events]
    ELSE LET r == plan[attempt + 1]
             got == Append(events, [Ev("GET", url) EXCEPT !.got = <<r>>])
         IN  IF r.exc = "RequestException"
             THEN IF attempt < MAX_RETRIES - 1
                  THEN RetryLoop_retries_every_status(url, plan, attempt + 1,
                           Append(got, Ev("sleep", Tenths(RETRY_BACKOFF_BASE))))
                  ELSE [resp |-> NoResp, raised |-> "", events |-> got]
             ELSE IF r.exc # "" THEN [resp |-> NoResp, raised |-> r.exc, events |-> got]
             ELSE IF r.status = 200 THEN [resp |-> <<r>>, raised |-> "", events |-> got]
             ELSE RetryLoop_retries_every_status(url, plan, attempt + 1,
                      Append(got, Ev("sleep", Tenths(Backoff(attempt)))))


\* _fetch_with_retry(url), plan[n] being what the n-th GET of the call meets:
\* the response returned (NoResp for None), the exception let out, the GETs and sleeps
RECURSIVE RetryLoop(_, _, _, _)
RetryLoop(url, plan, attempt, events) ==
    IF attempt >= MAX_RETRIES THEN [resp |-> NoResp, raised |-> "", events |-> events]
    ELSE LET r == plan[attempt + 1]
             got == Append(events, [Ev("GET", url) EXCEPT !.got = <<r>>])
         IN  IF r.exc = "RequestException"
             THEN IF attempt < MAX_RETRIES - 1
                  THEN RetryLoop(url, plan, attempt + 1,
                                 Append(got, Ev("sleep", Tenths(RETRY_BACKOFF_BASE))))
                  ELSE [resp |-> NoResp, raised |-> "", events |-> got]
             ELSE IF r.exc # "" THEN [resp |-> NoResp, raised |-> r.exc, events |-> got]
             ELSE IF r.status = 200 THEN [resp |-> <<r>>, raised |-> "", events |-> got]
             ELSE IF r.status = 429 \/ r.status >= 500
             THEN RetryLoop(url, plan, attempt + 1,
                            Append(got, Ev("sleep", Tenths(Backoff(attempt)))))
             ELSE [resp |-> NoResp, raised |-> "", events |-> got]

_fetch_with_retry(url, plan) == RetryLoop(url, plan, 0, <<>>)

\* what fetch_bulletin returns (gd_url, text), the exception it lets out, the two
\* caches after it, and what it did
BulletinResult(gd_url, text, raised, tc, rc, events) ==
    [gd_url |-> gd_url, text |-> text, raised |-> raised, tc |-> tc, rc |-> rc,
     events |-> events]

WithText_always_writes(url, html, csms_id, tc, rc, events) ==
    LET text == _extract_text_from_bulletin(html)
    IN  BulletinResult(Some(url), Some(text), "", WriteFile(tc, csms_id, text), rc,
                       Append(events, Ev("text_write", csms_id)))


\* lines 195-200, and 168-172: the text is cached when it is not empty
WithText(url, html, csms_id, tc, rc, events) ==
    LET text == _extract_text_from_bulletin(html)
    IN  IF text # <<>>
        THEN BulletinResult(Some(url), Some(text), "", WriteFile(tc, csms_id, text), rc,
                            Append(events, Ev("text_write", csms_id)))
        ELSE BulletinResult(Some(url), Some(text), "", tc, rc, events)

SecondFetch_follows_stub(html, csms_id, tc, rc, plan2, events) ==
    LET dest == _resolve_js_redirect(html)
        gd_url == dest[1]
        key == crawl_cache_key(gd_url)
        looked == Append(events, Ev("raw_exists", gd_url))
        f == _fetch_with_retry(gd_url, plan2)
        page == IF key \in DOMAIN rc THEN read_page(rc[key]) ELSE f.resp[1].page
        after == IF key \in DOMAIN rc THEN Append(looked, Ev("raw_read", gd_url))
                 ELSE looked \o f.events
                         \o <<Ev("raw_write", gd_url), Ev("sleep", REQUEST_DELAY_TENTHS)>>
        rc2 == IF key \in DOMAIN rc THEN rc ELSE WriteFile(rc, key, page)
        next == _resolve_js_redirect(page)
        g == _fetch_with_retry(next[1], plan2)
    IN  IF dest = NoStr THEN BulletinResult(NoStr, NoStr, "", tc, rc, events)
        ELSE IF key \notin DOMAIN rc /\ f.raised # ""
        THEN BulletinResult(NoStr, NoStr, f.raised, tc, rc, looked \o f.events)
        ELSE IF key \notin DOMAIN rc /\ f.resp = NoResp
        THEN BulletinResult(Some(gd_url), NoStr, "", tc, rc, looked \o f.events)
        ELSE IF ~_is_bulletin_page(page) /\ next # NoStr /\ g.raised = "" /\ g.resp # NoResp
        THEN WithText(next[1], g.resp[1].page, csms_id, tc, rc2, after \o g.events)
        ELSE WithText(gd_url, page, csms_id, tc, rc2, after)

\* lines 174-200: the page is the lnks.gd redirect page
SecondFetch(html, csms_id, tc, rc, plan2, events) ==
    LET dest == _resolve_js_redirect(html)
        gd_url == dest[1]
        key == crawl_cache_key(gd_url)
        looked == Append(events, Ev("raw_exists", gd_url))
        f == _fetch_with_retry(gd_url, plan2)
    IN  IF dest = NoStr THEN BulletinResult(NoStr, NoStr, "", tc, rc, events)
        ELSE IF key \in DOMAIN rc
        THEN WithText(gd_url, read_page(rc[key]), csms_id, tc, rc, Append(looked, Ev("raw_read", gd_url)))
        ELSE IF f.raised # ""
        THEN BulletinResult(NoStr, NoStr, f.raised, tc, rc, looked \o f.events)
        ELSE IF f.resp = NoResp
        THEN BulletinResult(Some(gd_url), NoStr, "", tc, rc, looked \o f.events)
        ELSE WithText(gd_url, f.resp[1].page, csms_id, tc,
                      WriteFile(rc, key, f.resp[1].page),
                      looked \o f.events
                         \o <<Ev("raw_write", gd_url), Ev("sleep", REQUEST_DELAY_TENTHS)>>)

\* lines 166-200: what is done with the first page
AfterFirstPage(html, final_url, csms_id, tc, rc, plan2, events) ==
    IF _is_bulletin_page(html) THEN WithText(final_url, html, csms_id, tc, rc, events)
    ELSE SecondFetch(html, csms_id, tc, rc, plan2, events)

fetch_bulletin_refetches(lnks_url, csms_id, tc, rc, plan1, plan2) ==
    LET f == _fetch_with_retry(lnks_url, plan1)
    IN  IF csms_id \in DOMAIN tc /\ f.raised = "" /\ f.resp # NoResp
        THEN BulletinResult(Some(lnks_url), Some(tc[csms_id]), "", tc,
                            WriteFile(rc, crawl_cache_key(lnks_url), f.resp[1].page),
                            f.events \o <<Ev("raw_write", lnks_url),
                                          Ev("sleep", REQUEST_DELAY_TENTHS)>>)
        ELSE BulletinResult(NoStr, NoStr, f.raised, tc, rc, f.events)

fetch_bulletin_ignores_raw_cache(lnks_url, csms_id, tc, rc, plan1, plan2) ==
    LET key == crawl_cache_key(lnks_url)
        looked == <<Ev("text_exists", csms_id), Ev("raw_exists", lnks_url)>>
        f == _fetch_with_retry(lnks_url, plan1)
    IN  IF csms_id \in DOMAIN tc
        THEN BulletinResult(Some(lnks_url), Some(read_text(tc[csms_id])), "", tc, rc,
                            <<Ev("text_exists", csms_id), Ev("text_read", csms_id)>>)
        ELSE IF f.raised # ""
        THEN BulletinResult(NoStr, NoStr, f.raised, tc, rc, looked \o f.events)
        ELSE IF f.resp = NoResp
        THEN BulletinResult(NoStr, NoStr, "", tc, rc, looked \o f.events)
        ELSE AfterFirstPage(f.resp[1].page, f.resp[1].url, csms_id, tc,
                            WriteFile(rc, key, f.resp[1].page), plan2,
                            looked \o f.events
                               \o <<Ev("raw_write", lnks_url), Ev("sleep", REQUEST_DELAY_TENTHS)>>)

\* fetch_bulletin(lnks_url, csms_id), plan1 and plan2 being what the GETs of the
\* short link and of the resolved link meet
fetch_bulletin(lnks_url, csms_id, tc, rc, plan1, plan2) ==
    LET key == crawl_cache_key(lnks_url)
        looked == <<Ev("text_exists", csms_id), Ev("raw_exists", lnks_url)>>
        f == _fetch_with_retry(lnks_url, plan1)
    IN  IF csms_id \in DOMAIN tc
        THEN BulletinResult(Some(lnks_url), Some(read_text(tc[csms_id])), "", tc, rc,
                            <<Ev("text_exists", csms_id), Ev("text_read", csms_id)>>)
        ELSE IF key \in DOMAIN rc
        THEN AfterFirstPage(read_page(rc[key]), lnks_url, csms_id, tc, rc, plan2,
                            Append(looked, Ev("raw_read", lnks_url)))
        ELSE IF f.raised # ""
        THEN BulletinResult(NoStr, NoStr, f.raised, tc, rc, looked \o f.events)
        ELSE IF f.resp = NoResp
        THEN BulletinResult(NoStr, NoStr, "", tc, rc, looked \o f.events)
        ELSE AfterFirstPage(f.resp[1].page, f.resp[1].url, csms_id, tc,
                            WriteFile(rc, key, f.resp[1].page), plan2,
                            looked \o f.events
                               \o <<Ev("raw_write", lnks_url), Ev("sleep", REQUEST_DELAY_TENTHS)>>)

PipelineError_anonymous(csms_id, url, error) == [csms_id |-> "", url |-> url, error |-> error]

\* models.PipelineError
PipelineError(csms_id, url, error) == [csms_id |-> csms_id, url |-> url, error |-> error]

\* models.CsmsEntry as extract leaves it: no resolved link, no full text
CsmsEntry(csms_id, title, lnks_gd_url) ==
    [csms_id |-> csms_id, title |-> title, lnks_gd_url |-> lnks_gd_url,
     govdelivery_url |-> NoStr, full_text |-> NoStr]

\* one iteration of the loop of fetch_entries: the loop state, the caches and the
\* events after it
FetchIter(st, dry_run, tc, rc, plan1, plan2) ==
    LET entry == st.entries[st.i]
        r == fetch_bulletin(entry.lnks_gd_url[1], entry.csms_id, tc, rc, plan1, plan2)
        linked == IF r.gd_url # NoStr /\ r.gd_url # Some("")
                  THEN [entry EXCEPT !.govdelivery_url = r.gd_url] ELSE entry
        next == [st EXCEPT !.i = st.i + 1]
    IN  IF dry_run THEN [st |-> next, tc |-> tc, rc |-> rc, events |-> <<>>]
        ELSE IF entry.lnks_gd_url = NoStr \/ entry.lnks_gd_url = Some("")
        THEN [st |-> [next EXCEPT !.errors = Append(st.errors,
                         PipelineError(entry.csms_id, NoStr, "No lnks.gd URL found in PDF"))],
              tc |-> tc, rc |-> rc, events |-> <<>>]
        ELSE IF r.raised # ""
        THEN [st |-> [next EXCEPT !.errors = Append(st.errors,
                         PipelineError(entry.csms_id, entry.lnks_gd_url, r.raised))],
              tc |-> r.tc, rc |-> r.rc, events |-> r.events]
        ELSE IF r.text # NoStr /\ r.text # Some(<<>>)
        THEN [st |-> [next EXCEPT !.entries[st.i] = [linked EXCEPT !.full_text = r.text]],
              tc |-> r.tc, rc |-> r.rc, events |-> r.events]
        ELSE [st |-> [next EXCEPT !.entries[st.i] = linked,
                                  !.errors = Append(st.errors,
                                     PipelineError(entry.csms_id, entry.lnks_gd_url,
                                                   "No text extracted from bulletin"))],
              tc |-> r.tc, rc |-> r.rc, events |-> r.events]

\* The batches: the entries, the links, the pages and the answers of the servers
Lnks1 == "https://lnks.gd/1"
Lnks2 == "https://lnks.gd/2"
GdOf(lnks) == IF lnks = Lnks1 THEN "https://content.govdelivery.com/1"
              ELSE "https://content.govdelivery.com/2"
\* the text of the bulletin behind a short link
TextOf(lnks) == IF lnks = Lnks1 THEN <<"a">> ELSE <<"a", "|", "|", "h", "a", "i", "k", "u">>

Entry1 == CsmsEntry("64348288", "Aluminum Duties", Some(Lnks1))
Entry2 == CsmsEntry("67557993", "ACE Reports", Some(Lnks2))
Entry3 == CsmsEntry("67558000", "Steel Quota", NoStr)
CrawlPool == {Entry1, Entry2, Entry3}

\* what a GET of the short link can meet
Completed1(lnks) ==
    { Response(200, GdOf(lnks), BulletinPage(TextOf(lnks))),
      Response(200, GdOf(lnks), BulletinPage(<<>>)),
      Response(200, lnks, RedirectPage(GdOf(lnks))),
      Response(200, lnks, StubPage),
      Response(404, lnks, StubPage),
      Raises("UnicodeError") }
Retried == {Response(429, "", StubPage), Response(503, "", StubPage), Raises("RequestException")}

\* what a GET of the resolved link can meet
Completed2(lnks) ==
    { Response(200, GdOf(lnks), BulletinPage(TextOf(lnks))),
      Response(200, GdOf(lnks), BulletinPage(<<>>)),
      Response(404, GdOf(lnks), StubPage) }

\* the answers to the GETs of one call: nothing is asked after an answer that ends it
PlansOver(completed, retried) ==
    {plan \in [1..MAX_RETRIES -> completed \cup retried] :
        \A n \in 1..(MAX_RETRIES - 1) : plan[n] \in completed => plan[n + 1] = plan[n]}

Steady(answers) == {[n \in 1..MAX_RETRIES |-> r] : r \in answers}

RetryPlans1(lnks) == PlansOver(Completed1(lnks), Retried)
RetryPlans2(lnks) ==
    Steady(Completed2(lnks) \cup {Raises("RequestException")})
    \cup {<<Response(429, "", StubPage), Response(200, GdOf(lnks), BulletinPage(TextOf(lnks))),
            Response(200, GdOf(lnks), BulletinPage(TextOf(lnks)))>>}

BatchPlans1(lnks) ==
    Steady(Completed1(lnks) \cup {Response(429, "", StubPage), Raises("RequestException")})
    \cup {<<Response(429, "", StubPage), Response(200, GdOf(lnks), BulletinPage(TextOf(lnks))),
            Response(200, GdOf(lnks), BulletinPage(TextOf(lnks)))>>}
BatchPlans2(lnks) ==
    Steady({Response(200, GdOf(lnks), BulletinPage(TextOf(lnks))),
            Response(404, GdOf(lnks), StubPage), Raises("RequestException")})

\* the loop body of fetch_entries for the entry at fetchSt.i
FetchStepWith(Plans1(_), Plans2(_)) ==
    /\ fetchSt.phase = "running"
    /\ fetchSt.i <= Len(fetchSt.entries)
    /\ LET entry == fetchSt.entries[fetchSt.i]
           lnks == IF entry.lnks_gd_url = NoStr THEN Lnks1 ELSE entry.lnks_gd_url[1]
       IN  \E plan1 \in Plans1(lnks), plan2 \in Plans2(lnks) :
              LET r == FetchIter(fetchSt, FALSE, textCache, rawCache, plan1, plan2) IN
              /\ fetchSt' = r.st
              /\ textCache' = r.tc
              /\ rawCache' = r.rc
              /\ trace' = trace \o Tag(r.events, entry.csms_id)
    /\ UNCHANGED outsideCrawl

FetchReturn_early ==
    /\ fetchSt.phase = "running"
    /\ fetchSt.i > 1
    /\ fetchSt' = [fetchSt EXCEPT !.phase = "returned"]
    /\ UNCHANGED <<textCache, rawCache, trace>>
    /\ UNCHANGED outsideCrawl

\* fetch_entries returns (entries, errors)
FetchReturn ==
    /\ fetchSt.phase = "running"
    /\ fetchSt.i > Len(fetchSt.entries)
    /\ fetchSt' = [fetchSt EXCEPT !.phase = "returned"]
    /\ UNCHANGED <<textCache, rawCache, trace>>
    /\ UNCHANGED outsideCrawl

\* fetch_entries(entries) is called
Batch(entries) ==
    [input |-> entries, entries |-> entries, i |-> 1, errors |-> <<>>, phase |-> "running"]

\* one entry with a short link, fetched with the caches in every state they can be in
RetryInit ==
    /\ fetchSt = Batch(<<Entry1>>)
    /\ textCache \in {NoFiles, WriteFile(NoFiles, Entry1.csms_id, TextOf(Lnks1))}
    /\ rawCache \in
         { NoFiles,
           WriteFile(NoFiles, crawl_cache_key(Lnks1), RedirectPage(GdOf(Lnks1))),
           WriteFile(NoFiles, crawl_cache_key(Lnks1), BulletinPage(TextOf(Lnks1))),
           WriteFile(NoFiles, crawl_cache_key(GdOf(Lnks1)), BulletinPage(TextOf(Lnks1))),
           WriteFile(WriteFile(NoFiles, crawl_cache_key(Lnks1), RedirectPage(GdOf(Lnks1))),
                     crawl_cache_key(GdOf(Lnks1)), BulletinPage(TextOf(Lnks1))) }
    /\ trace = <<>>

RetryStep == FetchStepWith(RetryPlans1, RetryPlans2)
InitRetry == RetryInit /\ CacheIdle /\ ClassifyIdle /\ PfIdle /\ TrIdle /\ MainIdle /\ ExtractIdle
NextRetry == RetryStep \/ FetchReturn
SpecRetry == InitRetry /\ [][NextRetry]_vars

\* the program goes on as long as it has a step to take
SpecRetryLive == SpecRetry /\ WF_vars(NextRetry)

\* batches of at most MaxBatch entries with distinct identifiers
MaxBatch == 3
Batches ==
    {b \in UNION {[1..n -> CrawlPool] : n \in 0..MaxBatch} :
        \A m, n \in 1..Len(b) : m # n => b[m].csms_id # b[n].csms_id}

BatchInit ==
    /\ fetchSt \in {Batch(b) : b \in Batches}
    /\ textCache \in {NoFiles, WriteFile(NoFiles, Entry1.csms_id, TextOf(Lnks1))}
    /\ rawCache \in {NoFiles,
                     WriteFile(NoFiles, crawl_cache_key(Lnks2), RedirectPage(GdOf(Lnks2)))}
    /\ trace = <<>>

BatchStep == FetchStepWith(BatchPlans1, BatchPlans2)
InitFetch == BatchInit /\ CacheIdle /\ ClassifyIdle /\ PfIdle /\ TrIdle /\ MainIdle /\ ExtractIdle
NextFetch == BatchStep \/ FetchReturn
SpecFetch == InitFetch /\ [][NextFetch]_vars

\* Batches in which entries with different identifiers have a link in common: Entry4
\* has the short link of Entry1, and the short link of Entry2 may redirect to the
\* destination of Entry1's
Entry4 == CsmsEntry("67559999", "Aluminum Duties (update)", Some(Lnks1))
SharedPlans1(lnks) ==
    Steady({ Response(200, GdOf(lnks), BulletinPage(TextOf(lnks))),
             Response(200, lnks, RedirectPage(GdOf(Lnks1))),
             Response(200, lnks, RedirectPage(GdOf(lnks))),
             Response(404, lnks, StubPage) })
SharedBatches ==
    {b \in UNION {[1..n -> {Entry1, Entry2, Entry4}] : n \in 2..MaxBatch} :
        \A m, n \in 1..Len(b) : m # n => b[m].csms_id # b[n].csms_id}

SharedInit ==
    /\ fetchSt \in {Batch(b) : b \in SharedBatches}
    /\ textCache = NoFiles
    /\ rawCache \in {NoFiles,
                     WriteFile(NoFiles, crawl_cache_key(GdOf(Lnks1)), BulletinPage(<<>>))}
    /\ trace = <<>>

SharedStep == FetchStepWith(SharedPlans1, BatchPlans2)
InitShared == SharedInit /\ CacheIdle /\ ClassifyIdle /\ PfIdle /\ TrIdle /\ MainIdle /\ ExtractIdle
NextShared == SharedStep \/ FetchReturn
SpecShared == InitShared /\ [][NextShared]_vars

\* Entries whose resolved link may itself answer with a redirect page: the page
\* behind GdOf(lnks) names a further destination and has a body of its own
Further == "https://content.govdelivery.com/further"
AnotherStub == [RedirectPage(Further) EXCEPT !.text = <<"g", "o">>]

ResolvePlans1(lnks) ==
    Steady({ Response(200, GdOf(lnks), BulletinPage(TextOf(lnks))),
             Response(200, lnks, RedirectPage(GdOf(lnks))),
             Response(200, lnks, StubPage),
             Response(404, lnks, StubPage) })
    \cup {<<Raises("RequestException"), Response(503, "", StubPage),
            Response(200, lnks, RedirectPage(GdOf(lnks)))>>}
ResolvePlans2(lnks) ==
    Steady({ Response(200, GdOf(lnks), BulletinPage(TextOf(lnks))),
             Response(200, GdOf(lnks), AnotherStub),
             Response(200, GdOf(lnks), StubPage),
             Response(404, GdOf(lnks), StubPage),
             Raises("RequestException") })
    \cup {<<Response(503, "", StubPage), Response(429, "", StubPage),
            Response(200, GdOf(lnks), AnotherStub)>>}

ResolveInit ==
    /\ fetchSt \in {Batch(<<Entry1>>), Batch(<<Entry2, Entry1>>)}
    /\ textCache = NoFiles
    /\ rawCache \in
         { NoFiles,
           WriteFile(NoFiles, crawl_cache_key(Lnks1), RedirectPage(GdOf(Lnks1))),
           WriteFile(NoFiles, crawl_cache_key(Lnks1), StubPage),
           WriteFile(NoFiles, crawl_cache_key(Lnks1), BulletinPage(TextOf(Lnks1))),
           WriteFile(NoFiles, crawl_cache_key(GdOf(Lnks1)), AnotherStub),
           WriteFile(WriteFile(NoFiles, crawl_cache_key(Lnks1), RedirectPage(GdOf(Lnks1))),
                     crawl_cache_key(GdOf(Lnks1)), AnotherStub) }
    /\ trace = <<>>

ResolveStep == FetchStepWith(ResolvePlans1, ResolvePlans2)
InitResolve == ResolveInit /\ CacheIdle /\ ClassifyIdle /\ PfIdle /\ TrIdle /\ MainIdle /\ ExtractIdle
NextResolve == ResolveStep \/ FetchReturn
SpecResolve == InitResolve /\ [][NextResolve]_vars

-----------------------------------------------------------------------------
(* main.py                                                                  *)

\* config.DATE_RANGE_START = "2025-01-20" and DATE_RANGE_END = "2026-02-20".  An ISO
\* date YYYY-MM-DD is the number YYYYMMDD: the numbers are ordered as the strings are
DATE_RANGE_START == 20250120
DATE_RANGE_END == 20260220
MAX_PDFS_TO_PROCESS == 200

\* parse_args(): the flags of the command line
Args(dry_run, no_prefilter, full_text, model, clear, fetch_only) ==
    [dry_run |-> dry_run, no_prefilter |-> no_prefilter, full_text |-> full_text,
     model |-> model, clear_cache |-> clear, fetch_only |-> fetch_only]

\* models.CsmsEntry as extract leaves it, with its date
DatedEntry(csms_id, date, title, lnks_gd_url) ==
    CsmsEntry(csms_id, title, Some(lnks_gd_url)) @@ ("date" :> date)

\* the entries within the date range, in the order of the list
InRange(entries) ==
    SelectSeq(entries, LAMBDA e : DATE_RANGE_START <= e.date /\ e.date <= DATE_RANGE_END)

FirstN_plus_one(seq, n) == SubSeq(seq, 1, Min(Len(seq), n + 1))

\* seq[:n]
FirstN(seq, n) == SubSeq(seq, 1, Min(Len(seq), n))

\* Python's order on str, for the characters of a date
CodePoint(c) ==
    CASE c = "-" -> 45 [] c = "0" -> 48 [] c = "1" -> 49 [] c = "2" -> 50 [] c = "3" -> 51
      [] c = "4" -> 52 [] c = "5" -> 53 [] c = "6" -> 54 [] c = "7" -> 55 [] c = "8" -> 56
      [] c = "9" -> 57

RECURSIVE StrLess(_, _)
StrLess(a, b) ==
    IF b = <<>> THEN FALSE
    ELSE IF a = <<>> THEN TRUE
    ELSE IF Head(a) # Head(b) THEN CodePoint(Head(a)) < CodePoint(Head(b))
    ELSE StrLess(Tail(a), Tail(b))

\* a.effective_date or "0000-00-00"
SortKey(a) ==
    IF a.effective_date = None \/ a.effective_date.v[1] = <<>>
    THEN <<"0", "0", "0", "0", "-", "0", "0", "-", "0", "0">>
    ELSE a.effective_date.v[1]

\* list.sort(key=..., reverse=True): the greater key first, equal keys in the order
\* they had
RECURSIVE InsertByKey(_, _)
InsertByKey(sorted, a) ==
    IF sorted = <<>> THEN <<a>>
    ELSE IF StrLess(SortKey(Head(sorted)), SortKey(a)) THEN <<a>> \o sorted
    ELSE <<Head(sorted)>> \o InsertByKey(Tail(sorted), a)

RECURSIVE SortLoop(_, _, _)
SortLoop(actions, i, sorted) ==
    IF i > Len(actions) THEN sorted
    ELSE SortLoop(actions, i + 1, InsertByKey(sorted, actions[i]))

SortByEffectiveDate_none(actions) == actions

SortByEffectiveDate(actions) == SortLoop(actions, 1, <<>>)

\* a stage of main, in the history
Stage(name) == <<Ev(name, "")>>

MainStart_no_check ==
    /\ mainSt.pc = "start"
    /\ cacheDir' = IF mainSt.args.clear_cache THEN clear_cache(cacheDir).dir ELSE cacheDir
    /\ mainSt' = [mainSt EXCEPT !.pc = "extract"]
    /\ trace' = trace \o (IF mainSt.args.clear_cache THEN Stage("clear_cache") ELSE <<>>)
    /\ UNCHANGED <<promptVersion, last, stored, apiKeySet, fetchSt, textCache, rawCache>>
    /\ UNCHANGED outsideMain

\* lines 142-181: the cache is cleared if asked, the credential is checked
MainStart ==
    /\ mainSt.pc = "start"
    /\ cacheDir' = IF mainSt.args.clear_cache THEN clear_cache(cacheDir).dir ELSE cacheDir
    /\ mainSt' = IF ~mainSt.args.dry_run /\ ~mainSt.args.fetch_only /\ ~apiKeySet
                 THEN [mainSt EXCEPT !.pc = "done", !.status = "exit 1"]
                 ELSE [mainSt EXCEPT !.pc = "extract"]
    /\ trace' = trace \o (IF mainSt.args.clear_cache THEN Stage("clear_cache") ELSE <<>>)
    /\ UNCHANGED <<promptVersion, last, stored, apiKeySet, fetchSt, textCache, rawCache>>
    /\ UNCHANGED outsideMain

\* lines 183-195: the entries of the documents, and those within the date range
MainExtract ==
    /\ mainSt.pc = "extract"
    /\ mainSt' = [mainSt EXCEPT !.pc = "prefilter",
                                !.all_entries = mainSt.source,
                                !.entries_in_range = InRange(mainSt.source)]
    /\ trace' = trace \o Stage("extract") \o Stage("date_filter")
    /\ UNCHANGED <<cacheVars, apiKeySet, fetchSt, textCache, rawCache>>
    /\ UNCHANGED outsideMain

MainPrefilter_goes_on ==
    /\ mainSt.pc = "prefilter"
    /\ LET r == apply_prefilter(mainSt.entries_in_range, ~mainSt.args.no_prefilter)
       IN  mainSt' = [mainSt EXCEPT !.filtered_entries = r.passed,
                                    !.prefilter_skipped = r.skipped,
                                    !.pc = "fetch"]
    /\ trace' = trace \o Stage("prefilter")
    /\ UNCHANGED <<cacheVars, apiKeySet, fetchSt, textCache, rawCache>>
    /\ UNCHANGED outsideMain

\* lines 197-216: the prefilter, and the end of a dry run
MainPrefilter ==
    /\ mainSt.pc = "prefilter"
    /\ LET r == apply_prefilter(mainSt.entries_in_range, ~mainSt.args.no_prefilter)
       IN  mainSt' = [mainSt EXCEPT !.filtered_entries = r.passed,
                                    !.prefilter_skipped = r.skipped,
                                    !.pc = IF mainSt.args.dry_run THEN "done" ELSE "fetch",
                                    !.status = IF mainSt.args.dry_run THEN "dry run" ELSE ""]
    /\ trace' = trace \o Stage("prefilter")
    /\ UNCHANGED <<cacheVars, apiKeySet, fetchSt, textCache, rawCache>>
    /\ UNCHANGED outsideMain

\* lines 218-228: the cap, and the call of fetch_entries
MainCap ==
    /\ mainSt.pc = "fetch"
    /\ LET capped_entries == FirstN(mainSt.filtered_entries, MAX_PDFS_TO_PROCESS)
       IN  /\ mainSt' = [mainSt EXCEPT !.pc = "fetching", !.capped_entries = capped_entries]
           /\ fetchSt' = Batch(capped_entries)
    /\ trace' = trace \o Stage("cap")
    /\ UNCHANGED <<cacheVars, apiKeySet, textCache, rawCache>>
    /\ UNCHANGED outsideMain

MainFetched_unfinished ==
    /\ mainSt.pc = "fetching"
    /\ fetchSt.phase = "running" /\ fetchSt.i > 1
    /\ mainSt' = [mainSt EXCEPT
           !.fetch_errors = fetchSt.errors,
           !.entries_with_text =
               SelectSeq(fetchSt.entries,
                         LAMBDA e : e.full_text # NoStr /\ e.full_text # Some(<<>>)),
           !.i = 1,
           !.pc = IF mainSt.args.fetch_only THEN "done" ELSE "classify",
           !.status = IF mainSt.args.fetch_only THEN "fetch only" ELSE ""]
    /\ trace' = trace \o Stage("fetched")
    /\ UNCHANGED <<cacheVars, apiKeySet, fetchSt, textCache, rawCache>>
    /\ UNCHANGED outsideMain

\* lines 228-251: fetch_entries has returned; the end of a fetch-only run
MainFetched ==
    /\ mainSt.pc = "fetching"
    /\ fetchSt.phase = "returned"
    /\ mainSt' = [mainSt EXCEPT
           !.fetch_errors = fetchSt.errors,
           !.entries_with_text =
               SelectSeq(fetchSt.entries,
                         LAMBDA e : e.full_text # NoStr /\ e.full_text # Some(<<>>)),
           !.i = 1,
           !.pc = IF mainSt.args.fetch_only THEN "done" ELSE "classify",
           !.status = IF mainSt.args.fetch_only THEN "fetch only" ELSE ""]
    /\ trace' = trace \o Stage("fetched")
    /\ UNCHANGED <<cacheVars, apiKeySet, fetchSt, textCache, rawCache>>
    /\ UNCHANGED outsideMain

\* lines 262-297: one iteration of the classification loop, response being what the
\* service answers if it is called; except EnvironmentError catches every OSError and
\* raises it again, which ends the run
MainClassifyWith(responses) ==
    /\ mainSt.pc = "classify"
    /\ mainSt.i <= Len(mainSt.entries_with_text)
    /\ \E response \in responses,
          text \in {truncate_text(mainSt.entries_with_text[mainSt.i].full_text[1],
                                  ~mainSt.args.full_text)} :
        \E r \in {classify_entry(cacheDir, apiKeySet, mainSt.entries_with_text[mainSt.i],
                                  text, mainSt.args.model, promptVersion, response)} :
          LET entry == mainSt.entries_with_text[mainSt.i]
              model == mainSt.args.model
              next == [mainSt EXCEPT !.i = mainSt.i + 1]
          IN  /\ cacheDir' = r.dir
              /\ last' = [NoCall EXCEPT !.op = "classify", !.text = text, !.model = model,
                                        !.entry = <<entry>>,
                                        !.pre = RecordOf(cacheDir, text, model, promptVersion),
                                        !.actions = r.actions,
                                        !.input_tokens = r.input_tokens,
                                        !.output_tokens = r.output_tokens,
                                        !.raised = r.raised, !.svc = r.svc, !.env = r.env,
                                        !.answer = IF r.svc = 1 THEN <<response>> ELSE <<>>]
              /\ stored' = IF r.dir = cacheDir THEN stored
                           ELSE [stored EXCEPT ![<<text, model, promptVersion>>] =
                                    get_cached(r.dir, text, model, promptVersion).ret]
              /\ trace' = trace \o Tag(<<Ev("truncate", entry.csms_id),
                                         [Ev("classify", entry.csms_id) EXCEPT
                                             !.got = <<r.svc, r.raised>>]>>,
                                       entry.csms_id)
              /\ mainSt' =
                    IF IsOSError(r.raised)
                    THEN [mainSt EXCEPT !.pc = "done", !.status = r.raised]
                    ELSE IF r.raised # ""
                    THEN [next EXCEPT !.classification_errors =
                             Append(@, PipelineError(entry.csms_id, entry.govdelivery_url,
                                                     <<"Classification failed: ", r.raised>>))]
                    ELSE IF r.input_tokens = 0 /\ r.output_tokens = 0
                    THEN [next EXCEPT !.cache_hits = @ + 1,
                                      !.all_actions = @ \o r.actions]
                    ELSE [next EXCEPT !.new_api_calls = @ + 1,
                                      !.total_input_tokens = @ + r.input_tokens,
                                      !.total_output_tokens = @ + r.output_tokens,
                                      !.all_actions = @ \o r.actions]
    /\ UNCHANGED <<promptVersion, apiKeySet, fetchSt, textCache, rawCache>>
    /\ UNCHANGED outsideMain

\* lines 299-336: the actions sorted, the output assembled and written
MainOutput ==
    /\ mainSt.pc = "classify"
    /\ mainSt.i > Len(mainSt.entries_with_text)
    /\ LET all_actions == SortByEffectiveDate(mainSt.all_actions)
           output == [csms_entries_scanned |-> Len(mainSt.entries_in_range),
                      entries_after_filter |-> Len(mainSt.filtered_entries),
                      bulletins_fetched |-> Len(mainSt.entries_with_text),
                      max_pdfs_cap |-> MAX_PDFS_TO_PROCESS,
                      prefilter_enabled |-> ~mainSt.args.no_prefilter,
                      prefilter_skipped |-> mainSt.prefilter_skipped,
                      truncation_enabled |-> ~mainSt.args.full_text,
                      model_used |-> mainSt.args.model,
                      cache_hits |-> mainSt.cache_hits,
                      new_api_calls |-> mainSt.new_api_calls,
                      total_input_tokens |-> mainSt.total_input_tokens,
                      total_output_tokens |-> mainSt.total_output_tokens,
                      errors |-> mainSt.fetch_errors \o mainSt.classification_errors,
                      actions |-> all_actions]
       IN  mainSt' = [mainSt EXCEPT !.pc = "done", !.status = "complete",
                                    !.all_actions = all_actions, !.output = <<output>>]
    /\ trace' = trace \o Stage("write_output")
    /\ UNCHANGED <<cacheVars, apiKeySet, fetchSt, textCache, rawCache>>
    /\ UNCHANGED outsideMain

\* The runs: the entries extract returns (most recent first, identifiers distinct),
\* the flags, the caches and the credential before the run, the servers' answers
LinkNo(k) == "https://lnks.gd/" \o ToString(k)
GdLinkOf(lnks) == "https://content.govdelivery.com/bulletins?via=" \o lnks
BulletinOf(lnks) == IF lnks = LinkNo(3) THEN <<"a", "|", "|", "h", "a", "i", "k", "u">>
                    ELSE IF lnks = LinkNo(4) THEN <<"a", "\r", "\n", "b">>
                    ELSE <<"a">>

\* five entries: one after the date range, two whose titles hold a keyword, one
\* whose title holds none, one before the date range
Catalogue ==
    << DatedEntry("68000001", 20260301, <<"d", "u", "t", "y">>, LinkNo(1)),
       DatedEntry("67557993", 20260115, <<"D", "u", "t", "y">>, LinkNo(2)),
       DatedEntry("66400000", 20251103, <<"T", "R", "Q">>, LinkNo(3)),
       DatedEntry("65100000", 20250610, <<"R", "q">>, LinkNo(4)),
       DatedEntry("64000000", 20250101, <<"d", "u", "t", "y">>, LinkNo(5)) >>

RECURSIVE Picked(_, _)
Picked(seq, keep) ==
    IF seq = <<>> THEN <<>>
    ELSE (IF Len(seq) \in keep THEN <<seq[Len(seq)]>> ELSE <<>>)
         \o Picked(SubSeq(seq, 1, Len(seq) - 1), keep)

\* Picked lists the entries kept from the last to the first
Reversed(seq) == [n \in 1..Len(seq) |-> seq[Len(seq) + 1 - n]]
SmallSources == {Reversed(Picked(Catalogue, keep)) : keep \in SUBSET (1..Len(Catalogue))}

\* more entries than the cap lets through, all of one day and all with a keyword in
\* the title
MaxOver == 2
BulkEntry(k) == DatedEntry(ToString(70000000 + k), 20250601, <<"d", "u", "t", "y">>,
                           LinkNo(100 + k))
BulkSource(n) == [k \in 1..n |-> BulkEntry(k)]
BulkLinks == {LinkNo(100 + k) : k \in 1..(MAX_PDFS_TO_PROCESS + MaxOver + 1)}
BulkSources == {BulkSource(MAX_PDFS_TO_PROCESS + over) : over \in 0..MaxOver}

\* what the GETs of a run meet: the servers know no bulk link
MainPlans1(lnks) ==
    IF lnks \in BulkLinks THEN Steady({Response(404, lnks, StubPage)})
    ELSE Steady({Response(200, GdLinkOf(lnks), BulletinPage(BulletinOf(lnks))),
                 Response(200, lnks, RedirectPage(GdLinkOf(lnks))),
                 Response(404, lnks, StubPage)})
MainPlans2(lnks) ==
    Steady({Response(200, GdLinkOf(lnks), BulletinPage(BulletinOf(lnks))),
            Response(404, GdLinkOf(lnks), StubPage)})

\* what the classification service answers: an error, or a JSON array of actions
DatedDict(date) == JObj(<<<<"action_type", JStr("tariff")>>, <<"effective_date", JStr(date)>>>>)
MainResponses ==
    { [error |-> TRUE, content |-> 0, text |-> <<>>, input_tokens |-> 0,
       output_tokens |-> 0],
      [error |-> FALSE, content |-> 1,
       text |-> json_dumps(JArr(<<TariffDict,
                                  DatedDict(<<"2", "0", "2", "5", "-", "0", "3", "-", "1", "2">>)>>)),
       input_tokens |-> 900, output_tokens |-> 120],
      [error |-> FALSE, content |-> 1,
       text |-> json_dumps(JArr(<<DatedDict(<<"2", "0", "2", "5", "-", "1", "0", "-", "0", "1">>)>>)),
       input_tokens |-> 700, output_tokens |-> 60] }

\* main() is called
Run(args, source) == [NotRun EXCEPT !.pc = "start", !.args = args, !.source = source]

SmallArgs ==
    {Args(dry_run, no_prefilter, FALSE, DEFAULT_MODEL, clear, fetch_only) :
        dry_run \in BOOLEAN, no_prefilter \in BOOLEAN, clear \in BOOLEAN,
        fetch_only \in BOOLEAN}
    \cup {Args(FALSE, FALSE, TRUE, SONNET_MODEL, FALSE, FALSE)}

BulkArgs == {Args(FALSE, FALSE, FALSE, DEFAULT_MODEL, FALSE, fetch_only) :
                fetch_only \in BOOLEAN}

\* the classification cache after an earlier run stored a result for the first text
EarlierRun == set_cached([exists |-> FALSE, files |-> NoFiles], <<"a">>, DEFAULT_MODEL,
                         PROMPT_VERSION, JArr(<<TariffDict>>))

\* the record of that result after a disk or an administrator damaged it
Damaged(content) ==
    [exists |-> TRUE,
     files |-> WriteFile(NoFiles, _cache_key(<<"a">>, DEFAULT_MODEL, PROMPT_VERSION), content)]

MainInit ==
    /\ promptVersion = PROMPT_VERSION
    /\ last = NoCall
    /\ stored = StoredNothing
    /\ fetchSt = [input |-> <<>>, entries |-> <<>>, i |-> 1, errors |-> <<>>,
                  phase |-> "idle"]
    /\ rawCache = NoFiles
    /\ trace = <<>>
    /\ \/ /\ mainSt \in {Run(args, source) : args \in SmallArgs, source \in SmallSources}
          /\ apiKeySet \in BOOLEAN
          /\ cacheDir \in {[exists |-> FALSE, files |-> NoFiles], EarlierRun,
                            Damaged(Undecodable), Damaged(Unreadable)}
          /\ textCache \in {NoFiles,
                            WriteFile(NoFiles, Catalogue[2].csms_id, BulletinOf(LinkNo(2)))}
       \/ /\ mainSt \in {Run(args, source) : args \in BulkArgs, source \in BulkSources}
          /\ apiKeySet = TRUE
          /\ cacheDir = [exists |-> FALSE, files |-> NoFiles]
          /\ textCache =
                WriteFile(WriteFile(NoFiles, BulkEntry(MAX_PDFS_TO_PROCESS).csms_id, <<"a">>),
                          BulkEntry(MAX_PDFS_TO_PROCESS + 1).csms_id, <<"a">>)

MainFetchStep == mainSt.pc = "fetching" /\ FetchStepWith(MainPlans1, MainPlans2)
MainFetchReturn == mainSt.pc = "fetching" /\ FetchReturn
MainClassify == MainClassifyWith(MainResponses)

\* the program is run again after a complete run without errors: the same documents,
\* flags and credential, the caches as the first run left them; the history starts
\* anew and what the first run met is kept in first
MainAgain ==
    /\ mainSt.pc = "done" /\ mainSt.status = "complete" /\ mainSt.run = 1
    /\ mainSt.fetch_errors = <<>> /\ mainSt.classification_errors = <<>>
    /\ mainSt' = [Run(mainSt.args, mainSt.source) EXCEPT
                     !.run = 2,
                     !.first = <<[capped_entries |-> mainSt.capped_entries,
                                  entries_with_text |-> mainSt.entries_with_text,
                                  fetch_errors |-> mainSt.fetch_errors,
                                  classification_errors |-> mainSt.classification_errors]>>]
    /\ fetchSt' = [input |-> <<>>, entries |-> <<>>, i |-> 1, errors |-> <<>>,
                   phase |-> "idle"]
    /\ trace' = Stage("second run")
    /\ UNCHANGED <<cacheVars, apiKeySet, textCache, rawCache>>
    /\ UNCHANGED outsideMain

InitMain == MainInit /\ PfIdle /\ TrIdle /\ ExtractIdle
NextMain ==
    \/ MainStart
    \/ MainExtract
    \/ MainPrefilter
    \/ MainCap
    \/ MainFetchStep
    \/ MainFetchReturn
    \/ MainFetched
    \/ MainClassify
    \/ MainOutput
SpecMain == InitMain /\ [][NextMain]_vars

\* a run that goes to the end, and after it a second one
RerunArgs ==
    {Args(FALSE, no_prefilter, FALSE, DEFAULT_MODEL, clear, FALSE) :
        no_prefilter \in BOOLEAN, clear \in BOOLEAN}
RerunInit ==
    /\ promptVersion = PROMPT_VERSION
    /\ last = NoCall
    /\ stored = StoredNothing
    /\ fetchSt = [input |-> <<>>, entries |-> <<>>, i |-> 1, errors |-> <<>>,
                  phase |-> "idle"]
    /\ rawCache = NoFiles
    /\ trace = <<>>
    /\ mainSt \in {Run(args, source) : args \in RerunArgs, source \in SmallSources}
    /\ apiKeySet = TRUE
    /\ cacheDir \in {[exists |-> FALSE, files |-> NoFiles], EarlierRun}
    /\ textCache \in {NoFiles,
                      WriteFile(NoFiles, Catalogue[2].csms_id, BulletinOf(LinkNo(2)))}
InitRerun == RerunInit /\ PfIdle /\ TrIdle /\ ExtractIdle
NextRerun == NextMain \/ MainAgain
SpecRerun == InitRerun /\ [][NextRerun]_vars

-----------------------------------------------------------------------------
(* extract.py                                                               *)

\* the digits of n, without padding
RECURSIVE Decimal(_)
Decimal(n) == IF n < 10 THEN <<ToString(n)>> ELSE Decimal(n \div 10) \o <<ToString(n % 10)>>

\* strftime's %m and %d: two digits
TwoDigits(n) == <<ToString(n \div 10), ToString(n % 10)>>

IsLeap(y) == (y % 4 = 0 /\ y % 100 # 0) \/ y % 400 = 0
DaysIn(m, y) ==
    IF m \in {4, 6, 9, 11} THEN 30
    ELSE IF m = 2 THEN (IF IsLeap(y) THEN 29 ELSE 28)
    ELSE 31

\* _parse_date: date_str is what _DATE_RE matched, MM/DD/YYYY, given as the numbers
\* <<month, day, year>> its digits denote
_parse_date(date_str) ==
    LET m == date_str[1]
        d == date_str[2]
        y == date_str[3]
    IN  IF y >= 1 /\ m \in 1..12 /\ d \in 1..DaysIn(m, y)
        THEN Some(Decimal(y) \o <<"-">> \o TwoDigits(m) \o <<"-">> \o TwoDigits(d))
        ELSE NoStr

\* a table row of a document as parse_pdf reads it: the identifier and the title of the
\* row text, the date found on it, the link under it
Row(csms_id, title, date_str, uri) ==
    [csms_id |-> csms_id, title |-> title, date_str |-> date_str, uri |-> uri]

\* parse_pdf, from the row read: a row without a parseable date is skipped (date_str
\* is <<>> when no date was found)
RowEntries(row) ==
    LET iso_date == IF row.date_str = <<>> THEN NoStr ELSE _parse_date(row.date_str)
    IN  IF iso_date = NoStr THEN <<>>
        ELSE <<DatedEntry(row.csms_id, iso_date[1], row.title, row.uri)>>

RECURSIVE parse_pdf(_)
parse_pdf(rows) ==
    IF rows = <<>> THEN <<>> ELSE RowEntries(Head(rows)) \o parse_pdf(Tail(rows))

\* for entry in entries: if entry.csms_id not in seen_ids: add, append
AddEntries_no_dedup(all_entries, seen_ids, entries) ==
    [all_entries |-> all_entries \o entries,
     seen_ids |-> seen_ids \cup {entries[k].csms_id : k \in 1..Len(entries)}]

RECURSIVE AddEntries(_, _, _)
AddEntries(all_entries, seen_ids, entries) ==
    IF entries = <<>> THEN [all_entries |-> all_entries, seen_ids |-> seen_ids]
    ELSE LET entry == Head(entries)
         IN  IF entry.csms_id \notin seen_ids
             THEN AddEntries(Append(all_entries, entry), seen_ids \cup {entry.csms_id},
                             Tail(entries))
             ELSE AddEntries(all_entries, seen_ids, Tail(entries))

\* all_entries.sort(key=lambda e: e.date, reverse=True): the sort is stable, and with
\* reverse=True entries of equal date keep their order
InsertByDate(sorted, e) ==
    LET before == {k \in 1..Len(sorted) : ~StrLess(sorted[k].date, e.date)}
        n == IF before = {} THEN 0 ELSE CHOOSE k \in before : \A j \in before : j <= k
    IN  SubSeq(sorted, 1, n) \o <<e>> \o SubSeq(sorted, n + 1, Len(sorted))

RECURSIVE SortByDate(_)
SortByDate(entries) ==
    IF entries = <<>> THEN <<>>
    ELSE InsertByDate(SortByDate(SubSeq(entries, 1, Len(entries) - 1)), entries[Len(entries)])

\* extract_all_entries(pdf_dir, pdf_files) is called
ExtractCall(pdf_dir, pdf_files) ==
    [phase |-> "loop", pdf_dir |-> pdf_dir, pdf_files |-> pdf_files, f |-> 1,
     all_entries |-> <<>>, seen_ids |-> {}, warnings |-> <<>>, result |-> <<>>]

\* one iteration of for fname in pdf_files
ExtractFile ==
    /\ exSt.phase = "loop"
    /\ exSt.f <= Len(exSt.pdf_files)
    /\ LET fname == exSt.pdf_files[exSt.f]
       IN  IF fname \notin DOMAIN exSt.pdf_dir
           THEN exSt' = [exSt EXCEPT !.warnings = Append(@, fname), !.f = @ + 1]
           ELSE LET entries == parse_pdf(exSt.pdf_dir[fname])
                    r == AddEntries(exSt.all_entries, exSt.seen_ids, entries)
                IN  exSt' = [exSt EXCEPT !.all_entries = r.all_entries,
                                         !.seen_ids = r.seen_ids, !.f = @ + 1]
    /\ UNCHANGED outsideExtract

\* after the loop: sort and return
ExtractReturn ==
    /\ exSt.phase = "loop"
    /\ exSt.f > Len(exSt.pdf_files)
    /\ LET sorted == SortByDate(exSt.all_entries)
       IN  exSt' = [exSt EXCEPT !.phase = "returned", !.all_entries = sorted,
                                !.result = sorted]
    /\ UNCHANGED outsideExtract

\* The documents of the runs checked
MaxFiles == 3
PdfNames == {"a.pdf", "b.pdf", "c.pdf"}
Shelf ==
    [ x \in PdfNames |->
        CASE x = "a.pdf" ->
               <<Row("67557993", <<"D", "u", "t", "y">>, <<1, 15, 2026>>, LinkNo(1)),
                 Row("66400000", <<"T", "R", "Q">>, <<11, 3, 2025>>, LinkNo(2)),
                 Row("65100000", <<"R", "q">>, <<2, 30, 2025>>, LinkNo(3))>>
          [] x = "b.pdf" ->
               <<Row("66400000", <<"T", "R", "Q", "2">>, <<11, 4, 2025>>, LinkNo(4)),
                 Row("64000000", <<"d", "u", "t", "y">>, <<9, 9, 2025>>, LinkNo(5)),
                 Row("67557993", <<"D", "u", "t", "y">>, <<1, 15, 2026>>, LinkNo(1)),
                 Row("64000000", <<"r", "e", "p">>, <<12, 9, 2025>>, LinkNo(6))>>
          [] x = "c.pdf" ->
               <<Row("63000000", <<"T", "R", "Q">>, <<11, 3, 2025>>, LinkNo(7)),
                 Row("68000001", <<"d", "u", "t", "y">>, <<3, 1, 2026>>, LinkNo(8)),
                 Row("62000000", <<"f", "e", "e">>, <<11, 3, 2025>>, LinkNo(9))>> ]
Restricted(f, keys) == [x \in keys |-> f[x]]
PdfLists == UNION {[1..n -> PdfNames] : n \in 1..MaxFiles}

ExtractInit ==
    \E present \in SUBSET PdfNames, pdf_files \in PdfLists :
        exSt = ExtractCall(Restricted(Shelf, present), pdf_files)

InitExtract ==
    /\ ExtractInit
    /\ CacheIdle /\ ClassifyIdle /\ PfIdle /\ TrIdle /\ CrawlIdle /\ MainIdle
NextExtract == ExtractFile \/ ExtractReturn
SpecExtract == InitExtract /\ [][NextExtract]_vars


\* The table rows as parse_pdf reads them from a page: get_text("words") gives the
\* words with their positions, get_links the link rectangles; texts are sequences of
\* characters
DigitChars == {"0", "1", "2", "3", "4", "5", "6", "7", "8", "9"}
AllDigits(text, from, to) == to <= Len(text) /\ \A k \in from..to : text[k] \in DigitChars

\* int() of a sequence of digits
IntOf(digits) ==
    LET value[n \in 0..Len(digits)] ==
            IF n = 0 THEN 0
            ELSE 10 * value[n - 1] + (CHOOSE d \in 0..9 : ToString(d) = digits[n])
    IN  value[Len(digits)]

\* _DATE_RE.search(text), _DATE_RE being (\d{1,2}/\d{1,2}/\d{4}): the leftmost match,
\* a and b the numbers of digits of its first two fields; <<>> is None
_DATE_RE(text) ==
    LET MatchAt(i, a, b) ==
            /\ AllDigits(text, i, i + a - 1)
            /\ i + a <= Len(text) /\ text[i + a] = "/"
            /\ AllDigits(text, i + a + 1, i + a + b)
            /\ i + a + b + 1 <= Len(text) /\ text[i + a + b + 1] = "/"
            /\ AllDigits(text, i + a + b + 2, i + a + b + 5)
        found == {m \in (1..Len(text)) \X {1, 2} \X {1, 2} : MatchAt(m[1], m[2], m[3])}
        first == CHOOSE m \in found : \A n \in found : m[1] <= n[1]
        i == first[1]
        a == first[2]
        b == first[3]
    IN  IF found = {} THEN <<>>
        ELSE <<[start |-> i, end |-> i + a + b + 6,
                group |-> SubSeq(text, i, i + a + b + 5),
                fields |-> <<IntOf(SubSeq(text, i, i + a - 1)),
                             IntOf(SubSeq(text, i + a + 1, i + a + b)),
                             IntOf(SubSeq(text, i + a + b + 2, i + a + b + 5))>>]>>

\* _CSMS_ID_RE.match(text), _CSMS_ID_RE being ^(\d{7,9})\s+: 7 to 9 digits at the
\* start, then white space; end is the position after the white space
_CSMS_ID_RE(text) ==
    LET digits == CHOOSE k \in 0..Len(text) :
                     /\ AllDigits(text, 1, k)
                     /\ (k = Len(text) \/ text[k + 1] \notin DigitChars)
        spaces == CHOOSE k \in 0..(Len(text) - digits) :
                     /\ \A j \in 1..k : text[digits + j] = " "
                     /\ (digits + k = Len(text) \/ text[digits + k + 1] # " ")
    IN  IF digits \in 7..9 /\ spaces >= 1
        THEN <<[group |-> SubSeq(text, 1, digits), end |-> digits + spaces + 1]>>
        ELSE <<>>

\* str.strip() of a text whose white space is the space character
Strip(text) ==
    LET inked == {k \in 1..Len(text) : text[k] # " "}
    IN  IF inked = {} THEN <<>>
        ELSE SubSeq(text, CHOOSE k \in inked : \A j \in inked : k <= j,
                          CHOOSE k \in inked : \A j \in inked : j <= k)

\* " ".join(parts)
RECURSIVE Join(_)
Join(parts) ==
    IF parts = <<>> THEN <<>>
    ELSE IF Len(parts) = 1 THEN parts[1]
    ELSE parts[1] \o <<" ">> \o Join(Tail(parts))

\* a word of get_text("words") with its x0 and y0; a link of get_links with the y0 of
\* its rectangle (uri is NoStr for a link without one)
Word(x0, y0, word) == [x0 |-> x0, y0 |-> y0, word |-> word]
Link(uri, y0) == [uri |-> uri, y0 |-> y0]

\* the words within 8 of the rectangle's y0, sorted by x0 (a stable sort), joined
LineText(words, rect) ==
    LET line_words == SelectSeq(words, LAMBDA w :
                          (IF w.y0 >= rect.y0 THEN w.y0 - rect.y0 ELSE rect.y0 - w.y0) < 8)
        sorted[n \in 0..Len(line_words)] ==
            IF n = 0 THEN <<>>
            ELSE LET w == line_words[n]
                     k == Cardinality({j \in 1..(n - 1) : sorted[n - 1][j].x0 <= w.x0})
                 IN  SubSeq(sorted[n - 1], 1, k) \o <<w>> \o SubSeq(sorted[n - 1], k + 1, n - 1)
        in_order == sorted[Len(line_words)]
    IN  Join([n \in 1..Len(in_order) |-> in_order[n].word])

\* the links of the page that carry uri
RectsOf(uri, links) == SelectSeq(links, LAMBDA lnk : lnk.uri = Some(uri))

_extract_date_from_words_last_line(words, first_rect, uri, links) ==
    LET rects == <<first_rect>> \o RectsOf(uri, links)
        dated == {k \in 1..Len(rects) : _DATE_RE(LineText(words, rects[k])) # <<>>}
        final == CHOOSE k \in dated : \A j \in dated : j <= k
    IN  IF dated = {} THEN <<>> ELSE _DATE_RE(LineText(words, rects[final]))[1].fields

\* _extract_date_from_words: the first date found on the line of first_rect, then on
\* the lines of all the rectangles of the link; <<>> is None
_extract_date_from_words(words, first_rect, uri, links) ==
    LET rects == <<first_rect>> \o RectsOf(uri, links)
        dated == {k \in 1..Len(rects) : _DATE_RE(LineText(words, rects[k])) # <<>>}
        first == CHOOSE k \in dated : \A j \in dated : k <= j
    IN  IF dated = {} THEN <<>> ELSE _DATE_RE(LineText(words, rects[first]))[1].fields

\* _get_continuation_text: the lines of the link's other rectangles, each cut at its
\* date
_get_continuation_text(words, first_rect, uri, links) ==
    LET rects == SelectSeq(RectsOf(uri, links), LAMBDA rect :
                     ~((IF rect.y0 >= first_rect.y0 THEN rect.y0 - first_rect.y0
                        ELSE first_rect.y0 - rect.y0) < 4))
        Cut(line_text) ==
            IF _DATE_RE(line_text) = <<>> THEN line_text
            ELSE Strip(SubSeq(line_text, 1, _DATE_RE(line_text)[1].start - 1))
        lines == [n \in 1..Len(rects) |-> Cut(LineText(words, rects[n]))]
    IN  Join(SelectSeq(lines, LAMBDA line_text : line_text # <<>>))

\* uri.startswith("https://lnks.gd/")
IsShortLink(uri) == \E k \in 0..99 : uri = LinkNo(k)

\* url_first_rect: the first rectangle of every lnks.gd link, in the order of the links
url_first_rect(links) ==
    LET firsts[n \in 0..Len(links)] ==
            IF n = 0 THEN <<>>
            ELSE IF /\ links[n].uri # NoStr
                    /\ IsShortLink(links[n].uri[1])
                    /\ \A j \in 1..Len(firsts[n - 1]) : firsts[n - 1][j].uri # links[n].uri
            THEN Append(firsts[n - 1], links[n])
            ELSE firsts[n - 1]
    IN  firsts[Len(links)]

\* lines 51-82 for one link: the row read, or nothing when the row has no text or
\* does not start with an identifier; date_str is <<>> when no date was found
ReadRow(page, first_rect) ==
    LET uri == first_rect.uri[1]
        row_text == LineText(page.words, first_rect)
        csms_match == _CSMS_ID_RE(row_text)
        after_id == Strip(SubSeq(row_text, csms_match[1].end, Len(row_text)))
        date_str == _extract_date_from_words(page.words, first_rect, uri, page.links)
        date_match == _DATE_RE(after_id)
        cut == IF date_match = <<>> THEN after_id
               ELSE Strip(SubSeq(after_id, 1, date_match[1].start - 1))
        continuation == _get_continuation_text(page.words, first_rect, uri, page.links)
        title_text == IF continuation = <<>> THEN cut ELSE cut \o <<" ">> \o continuation
    IN  IF Strip(row_text) = <<>> \/ csms_match = <<>> THEN <<>>
        ELSE <<Row(csms_match[1].group, Strip(title_text), date_str, uri)>>

\* the rows of a page, in the order of url_first_rect
PageRows(page) ==
    LET firsts == url_first_rect(page.links)
        rows[n \in 0..Len(firsts)] ==
            IF n = 0 THEN <<>> ELSE rows[n - 1] \o ReadRow(page, firsts[n])
    IN  rows[Len(firsts)]

\* parse_pdf(pdf_path) is called: doc is the pages of the document
ParseCall(doc) == [phase |-> "pages", doc |-> doc, page_num |-> 1, entries |-> <<>>,
                   result |-> <<>>]

\* one iteration of for page_num, page in enumerate(doc)
ParsePage ==
    /\ exSt.phase = "pages"
    /\ exSt.page_num <= Len(exSt.doc)
    /\ exSt' = [exSt EXCEPT !.entries = @ \o parse_pdf(PageRows(exSt.doc[exSt.page_num])),
                            !.page_num = @ + 1]
    /\ UNCHANGED outsideExtract

\* doc.close(); return entries
ParseReturn ==
    /\ exSt.phase = "pages"
    /\ exSt.page_num > Len(exSt.doc)
    /\ exSt' = [exSt EXCEPT !.phase = "parsed", !.result = exSt.entries]
    /\ UNCHANGED outsideExtract

\* The pages of the documents checked: an entry of one or two lines followed by an
\* entry of one line
LineY == [first |-> 100, next |-> 112, final |-> 130]
IdWords == {<<"1", "2", "3", "4", "5", "6", "7">>, <<"1", "2", "3", "4", "5", "6", "7", "8", "9">>, <<"1", "2", "3", "4", "5", "6">>, <<"1", "2", "3", "4", "5", "6", "7", "8", "9", "0">>, <<"N", "o", "t", "i", "c", "e">>}
DateWords == {<<>>, <<"1", "/", "1", "5", "/", "2", "0", "2", "6">>, <<"0", "2", "/", "3", "0", "/", "2", "0", "2", "5">>, <<"0", "1", "/", "0", "5", "/", "0", "9", "9", "9">>, <<"1", "/", "5", "/", "0", "0", "0", "0">>}
LaterWords == {<<>>, <<"r", "a", "t", "e", "s">>, <<"1", "1", "/", "0", "3", "/", "2", "0", "2", "5">>}

\* the words of a line: the words that are not empty, at growing x0
LineWords(y0, listed) ==
    LET inked == SelectSeq(listed, LAMBDA word : word # <<>>)
    IN  [n \in 1..Len(inked) |-> Word(70 * n, y0, inked[n])]
LastRow == <<Word(150, LineY.final + 1, <<"F", "e", "e">>), Word(10, LineY.final + 1, <<"7", "6", "5", "4", "3", "2", "1">>),
             Word(400, LineY.final + 1, <<"3", "/", "1", "/", "2", "0", "2", "6">>)>>

PagePool ==
    { [words |-> LineWords(LineY.first + 1, <<id, <<"S", "t", "e", "e", "l">>, date>>)
                   \o (IF later = <<>> THEN <<>>
                       ELSE LineWords(LineY.next + 1, <<<<"q", "u", "o", "t", "a">>, later>>))
                   \o LastRow,
       links |-> (IF later = <<>> THEN <<Link(Some(LinkNo(1)), LineY.first)>>
                  ELSE IF upward
                  THEN <<Link(Some(LinkNo(1)), LineY.next), Link(Some(LinkNo(1)), LineY.first)>>
                  ELSE <<Link(Some(LinkNo(1)), LineY.first), Link(Some(LinkNo(1)), LineY.next)>>)
                 \o <<Link(NoStr, LineY.final), Link(Some("https://www.cbp.gov/trade"), LineY.final),
                      Link(Some(LinkNo(2)), LineY.final)>>] :
        id \in IdWords, date \in DateWords, later \in LaterWords, upward \in BOOLEAN }

ParseInit == \E page \in PagePool : exSt \in {ParseCall(<<page>>), ParseCall(<<page, page>>)}

InitParse ==
    /\ ParseInit
    /\ CacheIdle /\ ClassifyIdle /\ PfIdle /\ TrIdle /\ CrawlIdle /\ MainIdle
NextParse == ParsePage \/ ParseReturn
SpecParse == InitParse /\ [][NextParse]_vars

\* The program run a second time on the same document with the caches the first run
\* left behind. The first run starts with cold caches; the servers either answer the
\* short link itself, or redirect, and the bulletin body may have "\r\n" line ends.
CrLfText == <<"a", "\r", "\n", "b">>
TwicePlans1(lnks) ==
    Steady({ Response(200, GdOf(lnks), BulletinPage(TextOf(lnks))),
             Response(200, GdOf(lnks), BulletinPage(CrLfText)),
             Response(200, lnks, BulletinPage(TextOf(lnks))),
             Response(200, lnks, RedirectPage(GdOf(lnks))),
             Response(404, lnks, StubPage) })
TwicePlans2(lnks) ==
    Steady({ Response(200, GdOf(lnks), BulletinPage(TextOf(lnks))),
             Response(200, GdOf(lnks), BulletinPage(CrLfText)),
             Response(200, GdOf(lnks), BulletinPage(<<>>)),
             Raises("RequestException") })

TwiceInit ==
    /\ fetchSt \in {Batch(<<Entry1>>), Batch(<<Entry2, Entry1>>), Batch(<<Entry3, Entry2>>)}
    /\ textCache = NoFiles
    /\ rawCache = NoFiles
    /\ trace = <<>>

TwiceStep == FetchStepWith(TwicePlans1, TwicePlans2)

\* the entries the first run returned, once the second run has begun
FirstRun == SelectSeq(trace, LAMBDA e : e.ev = "again")

\* fetch_entries is called again with the entries as extract makes them from the same
\* document; what the first call returned is kept in the history
FetchAgain ==
    /\ fetchSt.phase = "returned"
    /\ FirstRun = <<>>
    /\ fetchSt' = Batch(fetchSt.input)
    /\ trace' = Append(trace, [Ev("again", "") EXCEPT !.got = fetchSt.entries])
    /\ UNCHANGED <<textCache, rawCache>>
    /\ UNCHANGED outsideCrawl

InitTwice == TwiceInit /\ CacheIdle /\ ClassifyIdle /\ PfIdle /\ TrIdle /\ MainIdle /\ ExtractIdle
NextTwice == TwiceStep \/ FetchReturn \/ FetchAgain
SpecTwice == InitTwice /\ [][NextTwice]_vars

\* Full runs in which the service may also answer with no content block: line 146 of
\* classify.py takes response.content[0], which raises IndexError on an empty list
NoContent == [error |-> FALSE, content |-> 0, text |-> <<>>, input_tokens |-> 650,
              output_tokens |-> 3]
StatsResponses == MainResponses \cup {NoContent}
StatsArgs ==
    {Args(FALSE, no_prefilter, FALSE, DEFAULT_MODEL, clear, FALSE) :
        no_prefilter \in BOOLEAN, clear \in BOOLEAN}
StatsInit ==
    /\ promptVersion = PROMPT_VERSION
    /\ last = NoCall
    /\ stored = StoredNothing
    /\ fetchSt = [input |-> <<>>, entries |-> <<>>, i |-> 1, errors |-> <<>>,
                  phase |-> "idle"]
    /\ rawCache = NoFiles
    /\ trace = <<>>
    /\ mainSt \in {Run(args, source) : args \in StatsArgs, source \in SmallSources}
    /\ apiKeySet \in BOOLEAN
    /\ cacheDir \in {[exists |-> FALSE, files |-> NoFiles], EarlierRun}
    /\ textCache \in {NoFiles,
                      WriteFile(NoFiles, Catalogue[2].csms_id, BulletinOf(LinkNo(2)))}

StatsClassify == MainClassifyWith(StatsResponses)
InitStats == StatsInit /\ PfIdle /\ TrIdle /\ ExtractIdle
NextStats ==
    \/ MainStart
    \/ MainExtract
    \/ MainPrefilter
    \/ MainCap
    \/ MainFetchStep
    \/ MainFetchReturn
    \/ MainFetched
    \/ StatsClassify
    \/ MainOutput
SpecStats == InitStats /\ [][NextStats]_vars

\* Dry runs with every combination of the other flags, over caches an earlier run
\* filled
DryArgs ==
    {Args(TRUE, no_prefilter, full_text, model, clear, fetch_only) :
        no_prefilter \in BOOLEAN, full_text \in BOOLEAN,
        model \in {DEFAULT_MODEL, SONNET_MODEL}, clear \in BOOLEAN,
        fetch_only \in BOOLEAN}
DrySources == {<<>>, SubSeq(Catalogue, 2, 3), Catalogue}
DryInit ==
    /\ promptVersion = PROMPT_VERSION
    /\ last = NoCall
    /\ stored = StoredNothing
    /\ fetchSt = [input |-> <<>>, entries |-> <<>>, i |-> 1, errors |-> <<>>,
                  phase |-> "idle"]
    /\ trace = <<>>
    /\ mainSt \in {Run(args, source) : args \in DryArgs, source \in DrySources}
    /\ apiKeySet \in BOOLEAN
    /\ cacheDir \in {[exists |-> FALSE, files |-> NoFiles],
                      [exists |-> TRUE, files |-> NoFiles], EarlierRun}
    /\ textCache \in {NoFiles,
                      WriteFile(NoFiles, Catalogue[2].csms_id, BulletinOf(LinkNo(2)))}
    /\ rawCache \in {NoFiles,
                     WriteFile(NoFiles, crawl_cache_key(LinkNo(2)),
                               RedirectPage(GdLinkOf(LinkNo(2))))}

InitDry == DryInit /\ PfIdle /\ TrIdle /\ ExtractIdle
NextDry == MainStart \/ MainExtract \/ MainPrefilter
SpecDry == InitDry /\ [][NextDry]_vars
-----------------------------------------------------------------------------
(* Claims                                                                   *)

\* C1: after any sequence of store, lookup and clear, lookup(text, model) returns
\* exactly the result of the latest store(text, model, R) not followed by a clear,
\* and a miss (None) when there is none; a second store replaces the first.
C1_LookupReturnsLatestStore ==
    /\ last.op = "lookup" =>
          /\ last.raised = ""
          /\ last.ret = stored[<<last.text, last.model, promptVersion>>]
    /\ \A text \in Texts, model \in Models :
          get_cached(cacheDir, text, model, promptVersion).ret
             = stored[<<text, model, promptVersion>>]

\* C1 witness: a lookup returned the two-element result stored last, while the
\* empty result is what is stored for the same text under some model
C1_Witness ==
    /\ last.op = "lookup"
    /\ last.ret = JArr(<<BogusDict, TariffDict>>)
    /\ \E model \in Models : stored[<<last.text, model, promptVersion>>] = JArr(<<>>)

\* C2: store(text, model, R) leaves lookup(text, model2) as it was for every
\* model2 # model; if nothing was stored under (text, model2) it is a miss.
C2_StoreLeavesOtherModels ==
    [][ last'.op = "store" =>
          \A model2 \in Models \ {last'.model} :
             /\ get_cached(cacheDir', last'.text, model2, promptVersion').ret
                   = get_cached(cacheDir, last'.text, model2, promptVersion).ret
             /\ stored'[<<last'.text, model2, promptVersion'>>] = None
                   => get_cached(cacheDir', last'.text, model2, promptVersion').ret = None
      ]_vars

\* C2 witness: a store was made while nothing is stored under the other model
C2_Witness ==
    /\ last.op = "store"
    /\ \E model2 \in Models \ {last.model} :
          /\ stored[<<last.text, model2, promptVersion>>] = None
          /\ stored[<<last.text, last.model, promptVersion>>] # None

\* C5: clear removes every stored record and returns how many it removed, so every
\* lookup is a miss until the next store; without a directory it changes nothing
\* and returns zero.
C5_ClearRemovesAllAndCounts ==
    /\ [](\A text \in Texts, model \in Models :
             stored[<<text, model, promptVersion>>] = None
                => get_cached(cacheDir, text, model, promptVersion).ret = None)
    /\ [][ last'.op = "clear" =>
             /\ cacheDir'.exists = cacheDir.exists
             /\ DOMAIN cacheDir'.files = {}
             /\ last'.count = Cardinality(DOMAIN cacheDir.files)
             /\ ~cacheDir.exists => (last'.count = 0 /\ cacheDir' = cacheDir)
             /\ \A text \in Texts, model \in Models :
                   get_cached(cacheDir', text, model, promptVersion').ret = None
         ]_vars

\* C5 witness: a clear removed three records (one of them from an older schema)
C5_Witness == last.op = "clear" /\ last.count = 3 /\ DOMAIN cacheDir.files = {}

\* C3 (as claimed): when the stored record of (text, model) does not parse, lookup
\* returns a miss, lets no error out and removes the record, so that a second
\* lookup misses too and no record is left.
C3_MalformedIsMissAndRemoved ==
    (last.op = "lookup" /\ last.pre # <<>> /\ Malformed(last.pre[1])) =>
        /\ last.raised = ""
        /\ last.ret = None
        /\ RecordOf(cacheDir, last.text, last.model, promptVersion) = <<>>
        /\ get_cached(cacheDir, last.text, last.model, promptVersion).ret = None

\* C3, the part the code keeps: a record that decodes as text and is not JSON is a
\* miss and is removed
C3_DecodableMalformedIsRemoved ==
    (last.op = "lookup" /\ last.pre # <<>> /\ last.pre[1].decodable
        /\ Malformed(last.pre[1])) =>
        /\ last.raised = ""
        /\ last.ret = None
        /\ RecordOf(cacheDir, last.text, last.model, promptVersion) = <<>>

C3_DecodableWitness ==
    /\ last.op = "lookup" /\ last.pre # <<>> /\ last.pre[1].decodable
    /\ Malformed(last.pre[1])

\* the triples stored so far and still held
Held == {x \in Triples : stored[x] # None}

OneInputDiffers(x, y) ==
    \/ x[1] # y[1] /\ x[2] = y[2] /\ x[3] = y[3]
    \/ x[1] = y[1] /\ x[2] # y[2] /\ x[3] = y[3]
    \/ x[1] = y[1] /\ x[2] = y[2] /\ x[3] # y[3]

\* C4: the key is a function of (text, model, schema version) of 24 digits; changing
\* exactly one of the three changes the key; after a version bump every lookup of
\* an entry stored before it is a miss, and the bump leaves the records as they were.
C4_KeyDependsOnEachInput ==
    /\ [](/\ \A x \in Held, y \in Held :
               OneInputDiffers(x, y) =>
                   _cache_key(x[1], x[2], x[3]) # _cache_key(y[1], y[2], y[3])
          /\ \A x \in Held :
               /\ HexLen(_cache_key(x[1], x[2], x[3])) = 24
               /\ _cache_key(x[1], x[2], x[3]) \in DOMAIN cacheDir.files
          /\ \A k \in DOMAIN cacheDir.files : HexLen(k) = 24
          /\ \A text \in Texts, model \in Models :
               stored[<<text, model, promptVersion>>] = None
                  => get_cached(cacheDir, text, model, promptVersion).ret = None)
    /\ [][ promptVersion' # promptVersion =>
             /\ cacheDir' = cacheDir
             /\ \A text \in Texts, model \in Models :
                   get_cached(cacheDir', text, model, promptVersion').ret = None
         ]_vars

\* C4 witness: after a bump, a lookup of an entry stored under the version before
\* missed, with the old record still in the directory
C4_Witness ==
    /\ promptVersion = VersionNo(2)
    /\ last.op = "lookup" /\ last.ret = None
    /\ stored[<<last.text, last.model, PROMPT_VERSION>>] # None
    /\ _cache_key(last.text, last.model, PROMPT_VERSION) \in DOMAIN cacheDir.files

\* the records validated from the list L, by position
ValidPositions(L, entry) == {i \in 1..Len(L.v) : BuildsAction(L.v[i], entry)}

ValidatedFrom(L, entry) ==
    LET pos == ValidPositions(L, entry)
        order == CHOOSE f \in [1..Cardinality(pos) -> pos] :
                    \A a, b \in 1..Cardinality(pos) : a < b => f[a] < f[b]
    IN  [k \in 1..Cardinality(pos) |-> TradeAction(L.v[order[k]], entry, order[k] - 1)]

\* C6: when the cache holds the list L for (text, model), classify returns the
\* records validated from L (none for the empty list), reports zero input and zero
\* output tokens, calls no service, does not read the credential and writes nothing
\* to the cache.
C6_CacheHitCostsNothing ==
    [][ (last'.op = "classify"
           /\ \E L \in Results :
                 RecordOf(cacheDir, last'.text, last'.model, promptVersion)
                    = <<FileText(json_dumps(L))>>)
        => \E L \in Results :
             /\ RecordOf(cacheDir, last'.text, last'.model, promptVersion)
                   = <<FileText(json_dumps(L))>>
             /\ last'.actions = ValidatedFrom(L, last'.entry[1])
             /\ L = JArr(<<>>) => last'.actions = <<>>
             /\ last'.raised = ""
             /\ last'.input_tokens = 0 /\ last'.output_tokens = 0
             /\ last'.svc = 0 /\ last'.env = 0
             /\ cacheDir' = cacheDir
      ]_vars

\* C6 witness: classify answered from a cached two-element list of which one element
\* validates, with no credential in the environment
C6_Witness ==
    /\ last.op = "classify"
    /\ last.pre = <<FileText(json_dumps(JArr(<<BogusDict, TariffDict>>)))>>
    /\ Len(last.actions) = 1 /\ last.actions[1].action_type = "tariff"
    /\ ~apiKeySet

\* keyword kw occurs in hay at offset i, letter case disregarded
OccursAt(hay, kw, i) ==
    /\ i + Len(kw) <= Len(hay)
    /\ \A j \in 1..Len(kw) : LowerChar(hay[i + j]) = LowerChar(kw[j])

OccursIn(hay, kw) == \E i \in 0..Len(hay) : OccursAt(hay, kw, i)

HasFullText(entry) == entry.full_text # NoStr /\ entry.full_text # Some(<<>>)

\* the title immediately followed by the full text
PlainConcat(entry) ==
    IF entry.full_text = NoStr THEN entry.title ELSE entry.title \o entry.full_text[1]

\* the title, one space, the full text
SpacedConcat(entry) ==
    IF HasFullText(entry) THEN entry.title \o <<" ">> \o entry.full_text[1] ELSE entry.title

C8_ApplyPrefilterPartitions ==
    pfOut.op = "apply" =>
        IF pfOut.enabled
        THEN /\ pfOut.passed = SelectSeq(pfIn, passes_keyword_filter)
             /\ pfOut.skipped
                   = Cardinality({i \in 1..Len(pfIn) : ~passes_keyword_filter(pfIn[i])})
             /\ Len(pfOut.passed) + pfOut.skipped = Len(pfIn)
        ELSE pfOut.passed = pfIn /\ pfOut.skipped = 0

\* C8 witness: of three entries, two survived in their order and one was skipped
C8_Witness ==
    /\ pfOut.op = "apply" /\ pfOut.enabled
    /\ Len(pfIn) = 3 /\ Len(pfOut.passed) = 2 /\ pfOut.skipped = 1
    /\ pfOut.passed[1] # pfOut.passed[2]

\* the cap that applies to the call: the length above which truncate_text cuts
UnderCap(text, enabled) ==
    IF enabled THEN Len(text) \div 4 <= 3000 ELSE Len(text) <= 10000 * 4

\* C9: truncate returns its input unchanged whenever the input is under the
\* applicable cap: enabled, every text whose length divided by the characters per
\* token is at most the target cap; disabled, every text no longer than the
\* full-text budget.
C9_UnderCapPassesThrough ==
    (trOut.done /\ UnderCap(trIn.text, trIn.enabled)) => trOut.result = trIn.text

\* C9 witness: a text of exactly 3000 estimated tokens that holds a keyword came
\* back unchanged with truncation enabled
C9_Witness ==
    /\ trOut.done /\ trIn.enabled
    /\ Len(trIn.text) \div 4 = 3000
    /\ \E i \in 1..(Len(trIn.text) - 3) : SubSeq(trIn.text, i, i + 3) = <<"d", "u", "t", "y">>
    /\ trOut.result = trIn.text

\* C10 (as claimed): for every text over the cap the returned text is bounded:
\* enabled, at most (target token cap + 100) times the characters per token;
\* disabled, at most the full-text token budget times that constant.
C10_OutputIsBounded ==
    (trOut.done /\ ~UnderCap(trIn.text, trIn.enabled)) =>
        IF trIn.enabled THEN Len(trOut.result) <= (3000 + 100) * 4
        ELSE Len(trOut.result) <= 10000 * 4

\* C11 (as claimed): truncation is idempotent: truncate_text applied to a text it
\* returned, with the same flag, returns that text.
C11_TruncateIsIdempotent ==
    [][trOut.done => trOut'.result = trOut.result]_vars

\* the text after the intro region holds no keyword, in any letter case
NoKeywordAfterIntro(text) ==
    LET rest == SubSeq(text, Min(Len(text), 6000) + 1, Len(text))
    IN  \A k \in 1..Len(TRADE_KEYWORDS) : ~OccursIn(rest, TRADE_KEYWORDS[k])

\* C12: for an over-cap text with no keyword after the intro region, truncate_text
\* (enabled) returns the note that no keyword matched followed by the intro region
\* and nothing else; for every non-empty text the output is non-empty.
C12_NoMatchGivesNoteAndIntro ==
    trOut.done =>
        /\ (trIn.enabled /\ Len(trIn.text) \div 4 > 3000 /\ NoKeywordAfterIntro(trIn.text))
              => /\ Len(trOut.result) = 74 + 6000
                 /\ SubSeq(trOut.result, 1, 74) = NoMatchNote
                 /\ SubSeq(trOut.result, 75, 6074) = SubSeq(trIn.text, 1, 6000)
        /\ trIn.text # <<>> => trOut.result # <<>>

\* C12 witness: a text over the cap whose only keyword straddles the end of the
\* intro region came back as the note and the intro region
C12_Witness ==
    /\ trOut.done /\ trIn.enabled
    /\ trIn.text \in TrStraddling
    /\ trOut.result = NoMatchNote \o SubSeq(trIn.text, 1, 6000)

\* the GETs of url in the trace, and the events between the n-th of them and the next
IsGet(e) == e.ev = "GET"
GetPositions(url) == {p \in 1..Len(trace) : trace[p].ev = "GET" /\ trace[p].arg = url}
GetsOf(url) == SelectSeq(trace, LAMBDA e : e.ev = "GET" /\ e.arg = url)
NthGet(url, n) == CHOOSE p \in GetPositions(url) :
                     Cardinality({q \in GetPositions(url) : q <= p}) = n

\* the first k GETs of url met status 429 and GET k + 1 met status 200
MetThrottlingThenOk(url, k) ==
    /\ Len(GetsOf(url)) >= k + 1
    /\ \A n \in 1..k : GetsOf(url)[n].got[1].exc = "" /\ GetsOf(url)[n].got[1].status = 429
    /\ GetsOf(url)[k + 1].got[1].exc = "" /\ GetsOf(url)[k + 1].got[1].status = 200

\* C13: a retried call that meets k < 3 responses 429 and then a 200 issues exactly
\* k + 1 GETs, waits 10 * 2^0, ..., 10 * 2^(k-1) seconds between them (strictly
\* increasing), and the payload of the 200 is returned and written to the raw cache.
C13_BackoffThenSuccess ==
    \A k \in 0..2 :
        MetThrottlingThenOk(Lnks1, k) =>
            /\ Len(GetsOf(Lnks1)) = k + 1
            /\ \A n \in 1..k :
                  /\ NthGet(Lnks1, n + 1) = NthGet(Lnks1, n) + 2
                  /\ trace[NthGet(Lnks1, n) + 1].ev = "sleep"
                  /\ trace[NthGet(Lnks1, n) + 1].arg = 10 * 10 * 2^(n - 1)
                  /\ n > 1 => trace[NthGet(Lnks1, n) + 1].arg > trace[NthGet(Lnks1, n) - 1].arg
            /\ LET payload == GetsOf(Lnks1)[k + 1].got[1].page IN
               /\ crawl_cache_key(Lnks1) \in DOMAIN rawCache
               /\ rawCache[crawl_cache_key(Lnks1)] = payload
               /\ trace[NthGet(Lnks1, k + 1) + 1] = [ev |-> "raw_write", arg |-> Lnks1,
                                                     id |-> Entry1.csms_id, got |-> <<>>]
               /\ (payload.is_bulletin /\ payload.text # "")
                     => fetchSt.entries[1].full_text = Some(payload.text)

\* C13 witness: two 429 and then a 200 with a bulletin, three GETs, waits of 10 and 20
\* seconds
C13_Witness ==
    /\ MetThrottlingThenOk(Lnks1, 2)
    /\ trace[NthGet(Lnks1, 1) + 1].arg = 100
    /\ trace[NthGet(Lnks1, 2) + 1].arg = 200
    /\ fetchSt.entries[1].full_text = Some(TextOf(Lnks1))

\* every GET of url met a transport failure, and the call is over
TransportAlwaysFailed(url) ==
    /\ fetchSt.i > 1
    /\ GetsOf(url) # <<>>
    /\ \A n \in 1..Len(GetsOf(url)) : GetsOf(url)[n].got[1].exc = "RequestException"

\* C14 (as claimed): under persistent transport failure a retried call issues
\* exactly two GETs, the second after the base delay, and returns failure.
C14_TransportFailureTwoGets ==
    TransportAlwaysFailed(Lnks1) =>
        /\ Len(GetsOf(Lnks1)) = 2
        /\ fetchSt.entries[1].full_text = NoStr

\* C14 (what the code does): under persistent transport failure a retried call issues
\* MAX_RETRIES = 3 GETs, waits the base delay of 10 seconds after the first and after
\* the second, and returns failure.
C14_TransportFailureThreeGets ==
    TransportAlwaysFailed(Lnks1) =>
        /\ Len(GetsOf(Lnks1)) = 3
        /\ \A n \in 1..2 : trace[NthGet(Lnks1, n) + 1] = [ev |-> "sleep", arg |-> 100,
                                                         id |-> Entry1.csms_id, got |-> <<>>]
        /\ NthGet(Lnks1, 3) = Len(trace)
        /\ fetchSt.entries[1].full_text = NoStr
        /\ Len(fetchSt.errors) = 1

\* C14 witness: the short link failed at transport level three times
C14_Witness ==
    /\ TransportAlwaysFailed(Lnks1)
    /\ Len(GetsOf(Lnks1)) = 3

\* the number of errors recorded for the entry id
ErrorsFor(id) == Cardinality({n \in 1..Len(fetchSt.errors) : fetchSt.errors[n].csms_id = id})

\* the events recorded for the entry id
EventsFor(id) == SelectSeq(trace, LAMBDA e : e.id = id)

RawEvents == {"raw_exists", "raw_read", "raw_write"}

C16_EntryWithoutLink ==
    \A n \in 1..Len(fetchSt.entries) :
        fetchSt.input[n].lnks_gd_url = NoStr =>
            /\ fetchSt.entries[n].full_text = NoStr
            /\ fetchSt.entries[n].govdelivery_url = NoStr
            /\ EventsFor(fetchSt.input[n].csms_id) = <<>>
            /\ ErrorsFor(fetchSt.input[n].csms_id) = IF n < fetchSt.i THEN 1 ELSE 0

\* C16 witness: the batch returned; its second entry had no short link and is one of
\* the two errors, and the third was fetched
C16_Witness ==
    /\ fetchSt.phase = "returned"
    /\ Len(fetchSt.entries) = 3
    /\ fetchSt.input[2] = Entry3
    /\ Len(fetchSt.errors) = 2 /\ fetchSt.errors[2].csms_id = Entry3.csms_id
    /\ fetchSt.entries[3].full_text # NoStr

\* the position in the batch of the entry id
IndexOf(id) == CHOOSE n \in 1..Len(fetchSt.input) : fetchSt.input[n].csms_id = id

\* C17: a batch fetch takes the entries in order whatever happened to the earlier
\* ones; when it returns every entry has been taken, each has either non-empty full
\* text and no error, or exactly one PipelineError and no full text, and the entries
\* returned are the input's, in the input's order.
C17_BatchRunsToTheEnd ==
    /\ Len(fetchSt.entries) = Len(fetchSt.input)
    /\ \A n \in 1..Len(fetchSt.input) :
          /\ fetchSt.entries[n].csms_id = fetchSt.input[n].csms_id
          /\ fetchSt.entries[n].title = fetchSt.input[n].title
          /\ fetchSt.entries[n].lnks_gd_url = fetchSt.input[n].lnks_gd_url
    /\ \A p, q \in 1..Len(trace) :
          p < q => IndexOf(trace[p].id) <= IndexOf(trace[q].id)
    /\ \A p, q \in 1..Len(fetchSt.errors) :
          p < q => IndexOf(fetchSt.errors[p].csms_id) < IndexOf(fetchSt.errors[q].csms_id)
    /\ fetchSt.phase = "returned" =>
          /\ fetchSt.i = Len(fetchSt.input) + 1
          /\ \A n \in 1..Len(fetchSt.entries) :
                LET e == fetchSt.entries[n] IN
                \/ /\ e.full_text # NoStr /\ e.full_text # Some(<<>>)
                   /\ ErrorsFor(e.csms_id) = 0
                \/ /\ e.full_text = NoStr
                   /\ ErrorsFor(e.csms_id) = 1

\* C17 witness: a batch of three returned: the first entry's fetch raised, the second
\* had no short link, the third has its text
C17_Witness ==
    /\ fetchSt.phase = "returned"
    /\ Len(fetchSt.entries) = 3
    /\ fetchSt.errors[1].error = "UnicodeError"
    /\ fetchSt.errors[2].error = "No lnks.gd URL found in PDF"
    /\ fetchSt.entries[3].full_text # NoStr
    /\ Len(EventsFor(fetchSt.entries[3].csms_id)) > 2

\* C18 (as claimed): after every GET, whatever its outcome, the fetcher waits at
\* least the inter-request delay before the next GET: between two consecutive GETs
\* of a run there is a wait of at least 1.5 seconds.
C18_WaitBetweenGets ==
    \A p, q \in 1..Len(trace) :
        (p < q /\ trace[p].ev = "GET" /\ trace[q].ev = "GET") =>
            \E r \in (p + 1)..(q - 1) : trace[r].ev = "sleep" /\ trace[r].arg >= REQUEST_DELAY_TENTHS

\* the GET at position p was answered with status 200, 429 or 5xx
Answered(p) ==
    LET r == trace[p].got[1] IN
    r.exc = "" /\ (r.status = 200 \/ r.status = 429 \/ r.status >= 500)

\* C18 (what the code keeps): a GET answered 200, 429 or 5xx is followed by a wait
\* of at least the inter-request delay before the next GET of the run.
C18_WaitAfterAnsweredGets ==
    \A p, q \in 1..Len(trace) :
        (p < q /\ trace[p].ev = "GET" /\ Answered(p) /\ trace[q].ev = "GET") =>
            \E r \in (p + 1)..(q - 1) :
                trace[r].ev = "sleep" /\ trace[r].arg >= REQUEST_DELAY_TENTHS

\* C18 witness: a GET answered 200 was followed by the delay and then by the GET of
\* the next entry
C18_Witness ==
    \E p, q \in 1..Len(trace) :
        /\ p < q /\ trace[p].ev = "GET" /\ trace[q].ev = "GET"
        /\ trace[p].got[1].exc = "" /\ trace[p].got[1].status = 200
        /\ trace[p].id # trace[q].id

\* the stage an event of the history belongs to
StageRank(e) ==
    CASE e.ev = "clear_cache" -> 0
      [] e.ev = "extract" -> 1
      [] e.ev = "date_filter" -> 2
      [] e.ev = "prefilter" -> 3
      [] e.ev = "cap" -> 4
      [] e.ev = "fetched" -> 6
      [] e.ev \in {"truncate", "classify"} -> 7
      [] e.ev = "write_output" -> 8
      [] OTHER -> 5

\* C19: in a run the stages are strictly ordered: the date filter and the prefilter
\* come before any GET and the prefilter sees entries without full text, the cap
\* comes before the first fetch, every fetch is over before the first truncate or
\* classify call, and a fetch-only run makes no classification call.
C19_StagesInOrder ==
    /\ \A p \in 1..(Len(trace) - 1) : StageRank(trace[p]) <= StageRank(trace[p + 1])
    /\ \A n \in 1..Len(mainSt.entries_in_range) :
          mainSt.entries_in_range[n].full_text = NoStr
    /\ fetchSt.phase # "idle" =>
          /\ fetchSt.input = mainSt.capped_entries
          /\ mainSt.pc \in {"fetching", "classify", "done"}
    /\ (\E p \in 1..Len(trace) : StageRank(trace[p]) = 7) =>
          /\ fetchSt.phase = "returned"
          /\ fetchSt.i = Len(fetchSt.input) + 1
          /\ ~mainSt.args.fetch_only
    /\ mainSt.status = "fetch only" =>
          /\ fetchSt.phase = "returned"
          /\ mainSt.all_actions = <<>> /\ mainSt.output = <<>>

\* C19 witness: a full run is over: an entry was skipped by the prefilter, a GET was
\* issued, a classification call was made and the output was written
C19_Witness ==
    /\ mainSt.status = "complete"
    /\ mainSt.prefilter_skipped > 0
    /\ \E p, q \in 1..Len(trace) :
          /\ trace[p].ev = "GET" /\ trace[q].ev = "classify" /\ trace[q].got[1] = 1
    /\ Len(mainSt.entries_with_text) = 2

\* C20: a fetch, and later a classification, is attempted for at most the maximum
\* number of entries, the first min(N, maximum) of the prefiltered date-descending
\* list; an entry beyond the cap is neither fetched nor classified and gets no
\* PipelineError.
C20_CapIsApplied ==
    LET filtered == mainSt.filtered_entries
        N == Len(filtered)
        errors == fetchSt.errors \o mainSt.classification_errors
    IN  /\ \A n \in 1..(N - 1) : filtered[n].date >= filtered[n + 1].date
        /\ fetchSt.phase # "idle" =>
              /\ Len(fetchSt.input) = Min(N, MAX_PDFS_TO_PROCESS)
              /\ \A n \in 1..Len(fetchSt.input) : fetchSt.input[n] = filtered[n]
        /\ Len(mainSt.entries_with_text) <= MAX_PDFS_TO_PROCESS
        /\ \A n \in (MAX_PDFS_TO_PROCESS + 1)..N :
              /\ \A p \in 1..Len(trace) : trace[p].id # filtered[n].csms_id
              /\ \A m \in 1..Len(errors) : errors[m].csms_id # filtered[n].csms_id
              /\ \A m \in 1..Len(mainSt.entries_with_text) :
                    mainSt.entries_with_text[m].csms_id # filtered[n].csms_id

\* C20 witness: a full run over two entries more than the cap is over; the last entry
\* within the cap was classified, and the first beyond it was not although its text
\* is in the text cache
C20_Witness ==
    /\ mainSt.status = "complete"
    /\ Len(mainSt.filtered_entries) = MAX_PDFS_TO_PROCESS + 2
    /\ BulkEntry(MAX_PDFS_TO_PROCESS + 1).csms_id \in DOMAIN textCache
    /\ mainSt.entries_with_text # <<>>
    /\ mainSt.entries_with_text[Len(mainSt.entries_with_text)].csms_id
          = BulkEntry(MAX_PDFS_TO_PROCESS).csms_id
    /\ Len(mainSt.output[1].errors) = MAX_PDFS_TO_PROCESS - 1

\* the run was asked to classify and the environment holds no credential
NeedsMissingKey == ~mainSt.args.dry_run /\ ~mainSt.args.fetch_only /\ ~apiKeySet

\* C21: when the credential is missing and the run is neither dry-run nor
\* fetch-only, it halts before any paid work: no extraction, no GET, no
\* classification call, and no output written.
C21_MissingKeyHaltsFirst ==
    (NeedsMissingKey /\ mainSt.pc # "start") =>
        /\ mainSt.pc = "done" /\ mainSt.status = "exit 1"
        /\ \A p \in 1..Len(trace) : trace[p].ev = "clear_cache"
        /\ mainSt.all_entries = <<>> /\ mainSt.entries_with_text = <<>>
        /\ fetchSt.phase = "idle"
        /\ mainSt.output = <<>>

\* C21 witness: a run over documents with entries in range was halted for want of
\* the credential
C21_Witness ==
    /\ NeedsMissingKey
    /\ mainSt.status = "exit 1"
    /\ Len(InRange(mainSt.source)) >= 2

\* the classification calls of the run, in order
ClassifyCalls == SelectSeq(trace, LAMBDA e : e.ev = "classify")
ClassificationErrorsFor(id) ==
    Cardinality({n \in 1..Len(mainSt.classification_errors) :
                    mainSt.classification_errors[n].csms_id = id})
\* the run ended on an exception raised out of the classification loop
Aborted == mainSt.pc = "done" /\ mainSt.status \notin {"complete", "dry run", "fetch only", "exit 1"}

\* what C22 says, ends being the failures that end the run: the run is ended only
\* by such a failure, every other failure of a classification is recorded as
\* exactly one PipelineError of the entry, and a run not ended classifies every entry
LoopGoesOnExcept(ends(_)) ==
    /\ Aborted => ends(ClassifyCalls[Len(ClassifyCalls)].got[2])
    /\ \A p \in 1..Len(ClassifyCalls) :
          LET exc == ClassifyCalls[p].got[2] IN
          /\ ends(exc) => Aborted /\ p = Len(ClassifyCalls)
          /\ ClassificationErrorsFor(ClassifyCalls[p].id)
                = IF exc = "" \/ ends(exc) THEN 0 ELSE 1
    /\ mainSt.status = "complete" =>
          /\ Len(ClassifyCalls) = Len(mainSt.entries_with_text)
          /\ \A n \in 1..Len(ClassifyCalls) :
                ClassifyCalls[n].id = mainSt.entries_with_text[n].csms_id

MissingKey(exc) == exc = "EnvironmentError"

\* C22 (as claimed): in the classification loop a missing credential is the only
\* condition that aborts the run; every other failure raised while classifying an
\* entry is recorded as exactly one PipelineError for it and the loop goes on to
\* classify every remaining entry.
C22_OnlyMissingKeyAborts == LoopGoesOnExcept(MissingKey)

\* C22 (what the code does): the run is aborted by every OSError, the missing
\* credential being one; every failure that is no OSError is recorded as exactly
\* one PipelineError and the loop goes on.
C22_OnlyOSErrorAborts == LoopGoesOnExcept(IsOSError)

\* C22 witness: the run is complete although the classification of its first entry
\* failed on an undecodable cache record; the failure is its one error, and the
\* second entry was classified
C22_Witness ==
    /\ mainSt.status = "complete"
    /\ Len(ClassifyCalls) = 2
    /\ ClassifyCalls[1].got[2] = "UnicodeDecodeError"
    /\ ClassifyCalls[2].got[2] = ""
    /\ Len(mainSt.classification_errors) = 1

\* C23: a dry run issues no HTTP request and no classification call and needs no
\* credential: it ends after the prefilter, having fetched and classified nothing.
C23_DryRunDoesNothing ==
    mainSt.args.dry_run =>
        /\ \A p \in 1..Len(trace) :
              trace[p].ev \in {"clear_cache", "extract", "date_filter", "prefilter"}
        /\ fetchSt.phase = "idle"
        /\ mainSt.status \in {"", "dry run"}
        /\ mainSt.pc \in {"start", "extract", "prefilter", "done"}
        /\ mainSt.pc = "done" =>
              /\ mainSt.status = "dry run"
              /\ trace[Len(trace)].ev = "prefilter"
        /\ mainSt.entries_with_text = <<>> /\ mainSt.all_actions = <<>>
        /\ mainSt.output = <<>>
        /\ rawCache = NoFiles

\* C23 witness: a dry run without a credential is over; two entries passed the
\* prefilter and nothing was fetched
C23_Witness ==
    /\ mainSt.args.dry_run /\ ~apiKeySet
    /\ mainSt.status = "dry run"
    /\ Len(mainSt.filtered_entries) = 2
    /\ mainSt.prefilter_skipped = 1

\* the action has an effective date
HasDate(a) == a.effective_date # None /\ a.effective_date.v[1] # <<>>

\* the day YYYY-MM-DD as the number YYYYMMDD
Digit(c) == CHOOSE d \in 0..9 : ToString(d) = c
DayNumber(date) ==
    LET digits == SelectSeq(date, LAMBDA c : c # "-")
        value[n \in 0..Len(digits)] ==
            IF n = 0 THEN 0 ELSE 10 * value[n - 1] + Digit(digits[n])
    IN  value[Len(digits)]

Occurs(a, seq) == Cardinality({n \in 1..Len(seq) : seq[n] = a})

\* C24: the actions of the assembled output are the actions classified, sorted by
\* effective date with the most recent first, and every action without an effective
\* date comes after every action that has one.
C24_OutputSortedByDate ==
    [][ (mainSt'.status = "complete" /\ mainSt.status # "complete") =>
          LET out == mainSt'.output[1].actions IN
          /\ Len(out) = Len(mainSt.all_actions)
          /\ \A n \in 1..Len(out) : Occurs(out[n], out) = Occurs(out[n], mainSt.all_actions)
          /\ \A m, n \in 1..Len(out) :
                m < n =>
                    /\ HasDate(out[n]) => HasDate(out[m])
                    /\ (HasDate(out[m]) /\ HasDate(out[n])) =>
                          DayNumber(out[m].effective_date.v[1])
                             >= DayNumber(out[n].effective_date.v[1])
      ]_vars

\* C24 witness: the output holds actions of two days and an action without a date;
\* the most recent comes first though it was classified last, the undated one last
C24_Witness ==
    /\ mainSt.status = "complete"
    /\ LET out == mainSt.output[1].actions IN
       /\ Len(out) >= 3
       /\ HasDate(out[1]) /\ DayNumber(out[1].effective_date.v[1]) = 20251001
       /\ HasDate(out[2]) /\ DayNumber(out[2].effective_date.v[1]) = 20250312
       /\ ~HasDate(out[Len(out)])
       /\ out[1].source_csms_id[2]
             = mainSt.entries_with_text[Len(mainSt.entries_with_text)].csms_id
       /\ Len(mainSt.entries_with_text) >= 2

\* the entries the documents listed hold, document after document and row after row;
\* a document that is missing holds none
Listed ==
    LET upto[n \in 0..Len(exSt.pdf_files)] ==
            IF n = 0 THEN <<>>
            ELSE upto[n - 1] \o (IF exSt.pdf_files[n] \in DOMAIN exSt.pdf_dir
                                 THEN parse_pdf(exSt.pdf_dir[exSt.pdf_files[n]])
                                 ELSE <<>>)
    IN  upto[Len(exSt.pdf_files)]

FirstListed(csms_id) ==
    LET at == {k \in 1..Len(Listed) : Listed[k].csms_id = csms_id}
    IN  Listed[CHOOSE k \in at : \A j \in at : k <= j]

\* C25: the list the extractor returns holds each identifier at most once, the entry
\* kept being the first one met, document after document and row after row; it is
\* sorted by date, the most recent first; and a missing document is skipped while the
\* entries of the others are all extracted.
C25_ExtractedListUniqueAndSorted ==
    exSt.phase = "returned" =>
        LET res == exSt.result IN
        /\ \A m, n \in 1..Len(res) : res[m].csms_id = res[n].csms_id => m = n
        /\ \A n \in 1..Len(res) :
              /\ \E k \in 1..Len(Listed) : Listed[k].csms_id = res[n].csms_id
              /\ res[n] = FirstListed(res[n].csms_id)
        /\ \A k \in 1..Len(Listed) : \E n \in 1..Len(res) : res[n].csms_id = Listed[k].csms_id
        /\ \A m, n \in 1..Len(res) :
              m < n => DayNumber(res[m].date) >= DayNumber(res[n].date)

\* C25 witness: a missing document was listed before one that is there, an identifier
\* appeared twice with different rows, and the sort changed the order
C25_Witness ==
    /\ exSt.phase = "returned"
    /\ \E m, n \in 1..Len(exSt.pdf_files) :
          /\ m < n
          /\ exSt.pdf_files[m] \notin DOMAIN exSt.pdf_dir
          /\ exSt.pdf_files[n] \in DOMAIN exSt.pdf_dir
    /\ exSt.warnings # <<>>
    /\ \E j, k \in 1..Len(Listed) :
          j < k /\ Listed[j].csms_id = Listed[k].csms_id /\ Listed[j] # Listed[k]
    /\ Len(exSt.result) >= 4
    /\ \E j, k \in 1..Len(Listed) :
          j < k /\ DayNumber(Listed[j].date) < DayNumber(Listed[k].date)

\* this is the second run, and in the first every capped entry was fetched with
\* text and classified without error
AfterCleanRun ==
    /\ mainSt.run = 2
    /\ mainSt.first[1].capped_entries # <<>>
    /\ mainSt.first[1].fetch_errors = <<>>
    /\ mainSt.first[1].classification_errors = <<>>
    /\ Len(mainSt.first[1].entries_with_text) = Len(mainSt.first[1].capped_entries)

Gets == SelectSeq(trace, LAMBDA e : e.ev = "GET")
ServiceCalls == SelectSeq(trace, LAMBDA e : e.ev = "classify" /\ e.got[1] = 1)

\* every record of the text cache is read as it was written
TextsReadAsWritten == \A id \in DOMAIN textCache : read_text(textCache[id]) = textCache[id]

\* C26 (as claimed): after a run in which every capped entry was fetched with text
\* and classified without error, a second run with the same documents, flags,
\* configuration and caches issues no GET and calls the classification service for
\* no entry.
C26_SecondRunDoesNoWork ==
    AfterCleanRun => Gets = <<>> /\ ServiceCalls = <<>>

\* C26 (what the code keeps): such a second run issues no GET; it calls the service
\* for no entry if it is not told to clear the classification cache and every text
\* of the text cache is read as it was written (none holds a carriage return).
C26_SecondRunOnTextsReadAsWritten ==
    AfterCleanRun =>
        /\ Gets = <<>>
        /\ (~mainSt.args.clear_cache /\ TextsReadAsWritten) => ServiceCalls = <<>>

\* C26 witness: the second run is complete; it read the texts of two entries from
\* the text cache and found the classification of each in the cache
C26_Witness ==
    /\ AfterCleanRun
    /\ mainSt.status = "complete"
    /\ ~mainSt.args.clear_cache /\ TextsReadAsWritten
    /\ Len(mainSt.entries_with_text) >= 2
    /\ mainSt.cache_hits = Len(mainSt.entries_with_text)
    /\ mainSt.new_api_calls = 0
    /\ \A n \in 1..Len(mainSt.entries_with_text) :
          \E p \in 1..Len(trace) :
              trace[p].ev = "text_read" /\ trace[p].arg = mainSt.entries_with_text[n].csms_id

\* the offsets of the remainder a list of windows covers
CoveredBy(windows) == UNION {windows[k][1]..(windows[k][2] - 1) : k \in 1..Len(windows)}

\* C27: the merged window list of one text is sorted by start offset and its windows
\* are disjoint and do not touch (each start is greater than the end before it); it
\* covers exactly what the raw windows cover, every window lies within the remaining
\* text, and two raw windows that overlap or touch are in the same merged window.
C27_MergedWindowsDisjointCover ==
    trOut.done =>
        LET raw == trOut.windows
            merged == trOut.merged
        IN
        /\ \A k \in 1..(Len(merged) - 1) : merged[k + 1][1] > merged[k][2]
        /\ \A k \in 1..Len(merged) :
              0 <= merged[k][1] /\ merged[k][1] < merged[k][2] /\ merged[k][2] <= trOut.rest_len
        /\ CoveredBy(merged) = CoveredBy(raw)
        /\ \A a, b \in 1..Len(raw) :
              (raw[a][1] <= raw[b][2] /\ raw[b][1] <= raw[a][2]) =>
                  \E k \in 1..Len(merged) :
                      /\ merged[k][1] <= raw[a][1] /\ raw[a][2] <= merged[k][2]
                      /\ merged[k][1] <= raw[b][1] /\ raw[b][2] <= merged[k][2]

\* C27 witness: two raw windows that touch were merged, two raw windows one character
\* apart were left apart, and the last window ends where the text ends
C27_Witness ==
    /\ trOut.done
    /\ Len(trOut.merged) = 2
    /\ \E a, b \in 1..Len(trOut.windows) :
          /\ trOut.windows[a][2] = trOut.windows[b][1]
          /\ \A c \in 1..Len(trOut.windows) :
                ~(trOut.windows[c][1] < trOut.windows[a][2]
                  /\ trOut.windows[a][2] < trOut.windows[c][2])
    /\ trOut.merged[2][1] = trOut.merged[1][2] + 1
    /\ trOut.merged[2][2] = trOut.rest_len

\* the GET at position p was answered with a status that is neither 200 nor 429 nor 5xx
Refused(p) ==
    LET r == trace[p].got[1] IN
    trace[p].ev = "GET" /\ r.exc = "" /\ r.status # 200 /\ r.status # 429 /\ r.status < 500

RetryBudgetKept ==
    /\ \A url \in {trace[p].arg : p \in GetPositions(Lnks1) \cup GetPositions(GdOf(Lnks1))} :
          Len(GetsOf(url)) <= MAX_RETRIES
    /\ \A p \in 1..Len(trace) :
          Refused(p) =>
              /\ p = Len(trace)
              /\ fetchSt.entries[1].full_text = NoStr
              /\ Len(fetchSt.errors) = 1

\* C28: whatever the server answers and whatever transport failures occur, a retried
\* fetch ends, having issued at most MAX_RETRIES GETs of its URL; an answer whose
\* status is neither 200 nor 429 nor 5xx ends the call with failure after that one
\* GET: no further GET and no wait follow it.
C28_RetryEndsWithinBudget ==
    /\ []RetryBudgetKept
    /\ <>(fetchSt.phase = "returned")

\* C28 witness: the first GET was answered 429 and followed by a wait, the second
\* was answered 404, which ended the fetch
C28_Witness ==
    /\ fetchSt.phase = "returned"
    /\ Len(GetsOf(Lnks1)) = 2
    /\ trace[Len(trace)].ev = "GET" /\ Refused(Len(trace))
    /\ \E p \in 1..(Len(trace) - 2) :
          /\ trace[p].ev = "GET" /\ trace[p].got[1].status = 429
          /\ trace[p + 1].ev = "sleep"

\* the GET at position p was answered 200
Served(p) ==
    trace[p].ev = "GET" /\ trace[p].got[1].exc = "" /\ trace[p].got[1].status = 200

\* C29: every page a GET was answered with (status 200) is written to the raw cache
\* under the key of the URL requested, before anything is made of the page, so the
\* record is there also when the page cannot be resolved or gives no text; a record
\* of the text cache is written only with text that is not empty.
C29_RawPageAlwaysCached ==
    /\ \A p \in 1..Len(trace) :
          Served(p) =>
              /\ p < Len(trace)
              /\ trace[p + 1].ev = "raw_write" /\ trace[p + 1].arg = trace[p].arg
              /\ crawl_cache_key(trace[p].arg) \in DOMAIN rawCache
              /\ rawCache[crawl_cache_key(trace[p].arg)] = trace[p].got[1].page
              /\ \A q \in 1..p : ~(trace[q].ev = "text_write" /\ trace[q].id = trace[p].id)
    /\ \A q \in 1..Len(trace) :
          trace[q].ev = "text_write" =>
              /\ trace[q].arg \in DOMAIN textCache
              /\ textCache[trace[q].arg] # <<>>
              /\ \E n \in 1..Len(fetchSt.entries) :
                    /\ fetchSt.entries[n].csms_id = trace[q].arg
                    /\ fetchSt.entries[n].full_text = Some(textCache[trace[q].arg])
    /\ \A id \in DOMAIN textCache : textCache[id] # <<>>

\* C29 witness: the short link was answered with a bulletin page that gives no text;
\* the page is in the raw cache, the text cache has no record, the entry has an error
C29_Witness ==
    /\ fetchSt.phase = "returned"
    /\ \E p \in 1..Len(trace) :
          /\ Served(p) /\ trace[p].arg = Lnks1
          /\ trace[p].got[1].page = BulletinPage(<<>>)
    /\ rawCache[crawl_cache_key(Lnks1)] = BulletinPage(<<>>)
    /\ textCache = NoFiles
    /\ Len(fetchSt.errors) = 1

\* the events a step added to the history
NewEvents == SubSeq(trace', Len(trace) + 1, Len(trace'))

\* C30: the raw cache and the text cache are immutable once written: over any
\* sequence of fetches a record that exists keeps its content and is neither written
\* again nor deleted; the fetcher only adds records for keys that have none.
C30_CacheRecordsImmutable ==
    [][ /\ \A key \in DOMAIN rawCache :
              key \in DOMAIN rawCache' /\ rawCache'[key] = rawCache[key]
        /\ \A id \in DOMAIN textCache :
              id \in DOMAIN textCache' /\ textCache'[id] = textCache[id]
        /\ \A n \in 1..Len(NewEvents) :
              /\ NewEvents[n].ev = "raw_write" =>
                    /\ crawl_cache_key(NewEvents[n].arg) \notin DOMAIN rawCache
                    /\ \A m \in 1..(n - 1) :
                          ~(NewEvents[m].ev = "raw_write" /\ NewEvents[m].arg = NewEvents[n].arg)
              /\ NewEvents[n].ev = "text_write" =>
                    /\ NewEvents[n].arg \notin DOMAIN textCache
                    /\ \A m \in 1..(n - 1) :
                          ~(NewEvents[m].ev = "text_write" /\ NewEvents[m].arg = NewEvents[n].arg)
      ]_vars

\* C30 witness: the raw record of a short link that was there before the batch was
\* read and is unchanged, the page it redirects to was fetched and added to the raw
\* cache, and its text was added to the text cache
C30_Witness ==
    /\ fetchSt.phase = "returned"
    /\ crawl_cache_key(Lnks2) \in DOMAIN rawCache
    /\ rawCache[crawl_cache_key(Lnks2)] = RedirectPage(GdOf(Lnks2))
    /\ \E p \in 1..Len(trace) : trace[p].ev = "raw_read" /\ trace[p].arg = Lnks2
    /\ \A p \in 1..Len(trace) : ~(trace[p].ev = "GET" /\ trace[p].arg = Lnks2)
    /\ \E p \in 1..Len(trace) : trace[p].ev = "raw_write" /\ trace[p].arg = GdOf(Lnks2)
    /\ crawl_cache_key(GdOf(Lnks2)) \in DOMAIN rawCache
    /\ \E p \in 1..Len(trace) : trace[p].ev = "text_write"
    /\ Cardinality(DOMAIN textCache) >= 2

\* position p of the history brought a page: a GET answered with status 200, or a
\* read of the raw cache; PageAt(p) is that page
Brought(p) == Served(p) \/ trace[p].ev = "raw_read"
PageAt(p) == IF trace[p].ev = "GET" THEN trace[p].got[1].page
             ELSE read_page(rawCache[crawl_cache_key(trace[p].arg)])

\* C31: resolving one entry takes at most two hops. A content page is extracted with
\* no further fetch; a page that is not one and holds the destination anchor leads to
\* exactly one more fetch, of that destination, looked up in the raw cache first and
\* retried, and the text is extracted from what it brings, a further redirect page
\* included, without following it; a page that is neither gives (None, None). So one
\* entry costs at most two retried fetches: at most MAX_RETRIES GETs of each of at
\* most two URLs.
C31_ResolveTakesAtMostTwoHops ==
    \A n \in 1..(fetchSt.i - 1) :
       LET id == fetchSt.input[n].csms_id
           lnks == fetchSt.input[n].lnks_gd_url[1]
           out == fetchSt.entries[n]
           mine == {p \in 1..Len(trace) : trace[p].id = id}
           gets == {p \in mine : trace[p].ev = "GET"}
           pages == {p \in mine : Brought(p)}
           TextOfPage(p) == _extract_text_from_bulletin(PageAt(p))
       IN  /\ Cardinality({trace[p].arg : p \in gets}) <= 2
           /\ \A p \in gets : Cardinality({q \in gets : trace[q].arg = trace[p].arg}) <= MAX_RETRIES
           /\ Cardinality(pages) <= 2
           /\ \A p \in pages, q \in mine :
                 (q > p /\ trace[q].ev \in {"GET", "raw_exists", "raw_read"}) =>
                     /\ trace[p].arg = lnks
                     /\ ~_is_bulletin_page(PageAt(p))
                     /\ _resolve_js_redirect(PageAt(p)) = Some(trace[q].arg)
           /\ \A p \in pages :
                 IF trace[p].arg # lnks \/ _is_bulletin_page(PageAt(p))
                 THEN /\ out.govdelivery_url # NoStr
                      /\ trace[p].arg # lnks => out.govdelivery_url = Some(trace[p].arg)
                      /\ out.full_text = IF TextOfPage(p) = <<>> THEN NoStr ELSE Some(TextOfPage(p))
                 ELSE IF _resolve_js_redirect(PageAt(p)) = NoStr
                 THEN out.govdelivery_url = NoStr /\ out.full_text = NoStr /\ ErrorsFor(id) = 1
                 ELSE LET dest == _resolve_js_redirect(PageAt(p))[1] IN
                      /\ \E q \in mine : q > p /\ trace[q].ev = "raw_exists" /\ trace[q].arg = dest
                      /\ \E q \in mine : q > p /\ trace[q].ev \in {"GET", "raw_read"}
                                               /\ trace[q].arg = dest

\* C31 witness: the short link was answered at the third GET with the redirect page,
\* the destination at its third GET with a page that is itself a redirect page; the
\* entry has that page's text, and the further destination was never requested
C31_Witness ==
    /\ fetchSt.phase = "returned"
    /\ fetchSt.input = <<Entry1>>
    /\ Len(GetsOf(Lnks1)) = MAX_RETRIES
    /\ Len(GetsOf(GdOf(Lnks1))) = MAX_RETRIES
    /\ \E p \in GetPositions(GdOf(Lnks1)) : Served(p) /\ PageAt(p) = AnotherStub
    /\ GetPositions(Further) = {}
    /\ fetchSt.entries[1].full_text = Some(_extract_text_from_bulletin(AnotherStub))
    /\ fetchSt.entries[1].govdelivery_url = Some(GdOf(Lnks1))


\* the lines of the link uri on a page, in the order of the page's links: the text of
\* the k-th, and the positions of those that hold a date token
LinkLine(page, uri, k) == LineText(page.words, RectsOf(uri, page.links)[k])
DatedLines(page, uri) ==
    {k \in 1..Len(RectsOf(uri, page.links)) : _DATE_RE(LinkLine(page, uri, k)) # <<>>}

\* the pages of the document read so far
PagesRead == {exSt.doc[p] : p \in 1..(exSt.page_num - 1)}

\* C32: for an entry whose link covers several lines (a line being the words within 8
\* of the top of a rectangle of the link) the date is the first date token found on
\* the first line and then on the continuation lines: when the first line holds a
\* date token the entry's date is that token's, also when a later line holds one; only
\* when it holds none is the date the token of the first later line that has one.
C32_FirstLineDateWins ==
    exSt.phase \in {"pages", "parsed"} =>
    \A n \in 1..Len(exSt.entries) :
       LET entry == exSt.entries[n]
           uri == entry.lnks_gd_url[1]
       IN  \E page \in PagesRead :
              LET dated == DatedLines(page, uri)
                  k == IF 1 \in dated THEN 1 ELSE CHOOSE j \in dated : \A i \in dated : j <= i
              IN  /\ dated # {}
                  /\ Some(entry.date) = _parse_date(_DATE_RE(LinkLine(page, uri, k))[1].fields)

\* C32 witness: a document was parsed in which the link of an entry covers two lines,
\* the first with the token 1/15/2026 and the second with 11/03/2025; the entry has
\* the date 2026-01-15
C32_Witness ==
    /\ exSt.phase = "parsed"
    /\ DatedLines(exSt.doc[1], LinkNo(1)) = {1, 2}
    /\ _DATE_RE(LinkLine(exSt.doc[1], LinkNo(1), 1))[1].group = <<"1", "/", "1", "5", "/", "2", "0", "2", "6">>
    /\ _DATE_RE(LinkLine(exSt.doc[1], LinkNo(1), 2))[1].group = <<"1", "1", "/", "0", "3", "/", "2", "0", "2", "5">>
    /\ \E n \in 1..Len(exSt.result) :
          /\ exSt.result[n].lnks_gd_url = Some(LinkNo(1))
          /\ exSt.result[n].date = <<"2", "0", "2", "6", "-", "0", "1", "-", "1", "5">>


\* YYYY-MM-DD: four digits, two digits, two digits
IsIsoDate(date) ==
    /\ Len(date) = 10
    /\ \A k \in 1..10 : IF k \in {5, 8} THEN date[k] = "-" ELSE date[k] \in DigitChars

\* the short links of a page, and those whose row starts with an identifier and has a
\* date that can be parsed
ShortLinksOn(page) ==
    {page.links[k].uri[1] : k \in {j \in 1..Len(page.links) :
                                     page.links[j].uri # NoStr /\ IsShortLink(page.links[j].uri[1])}}
DateFieldsOf(page, uri) ==
    LET dated == DatedLines(page, uri)
        k == IF 1 \in dated THEN 1 ELSE CHOOSE j \in dated : \A i \in dated : j <= i
    IN  IF dated = {} THEN <<>> ELSE _DATE_RE(LinkLine(page, uri, k))[1].fields
Readable(page, uri) ==
    /\ _CSMS_ID_RE(LinkLine(page, uri, 1)) # <<>>
    /\ DateFieldsOf(page, uri) # <<>>
    /\ _parse_date(DateFieldsOf(page, uri)) # NoStr

\* every entry has an identifier of 7 to 9 digits from the start of its row and a short
\* link; a row without a leading identifier or without a date that can be parsed
\* gives no entry, and every other row of every page read gives one; nothing else is
\* recorded
RowsBecomeEntries ==
    /\ \A n \in 1..Len(exSt.entries) :
          LET entry == exSt.entries[n] IN
          /\ Len(entry.csms_id) \in 7..9
          /\ AllDigits(entry.csms_id, 1, Len(entry.csms_id))
          /\ entry.lnks_gd_url # NoStr /\ IsShortLink(entry.lnks_gd_url[1])
          /\ \E page \in PagesRead :
                LET row_text == LinkLine(page, entry.lnks_gd_url[1], 1) IN
                /\ Readable(page, entry.lnks_gd_url[1])
                /\ SubSeq(row_text, 1, Len(entry.csms_id)) = entry.csms_id
                /\ row_text[Len(entry.csms_id) + 1] = " "
    /\ \A uri \in UNION {ShortLinksOn(exSt.doc[p]) : p \in 1..Len(exSt.doc)} :
          Cardinality({n \in 1..Len(exSt.entries) : exSt.entries[n].lnks_gd_url = Some(uri)})
            = Cardinality({p \in 1..(exSt.page_num - 1) : Readable(exSt.doc[p], uri)})
    /\ DOMAIN exSt = {"phase", "doc", "page_num", "entries", "result"}
    /\ mainSt = NotRun

\* C33 (as claimed): every entry emitted has an identifier of 7 to 9 digits taken from
\* the start of its row, a date in canonical ISO form and a short link; a row without
\* a leading identifier, or whose date cannot be parsed, yields no entry and no
\* error, and extraction continues with the remaining rows and pages.
C33_EntriesWellFormedIsoDate ==
    exSt.phase \in {"pages", "parsed"} =>
        /\ RowsBecomeEntries
        /\ \A n \in 1..Len(exSt.entries) : IsIsoDate(exSt.entries[n].date)

\* C33 (what the code keeps): the same, the date being the year without leading
\* zeros, the month and the day in two digits each: the canonical form only for years
\* from 1000 on.
C33_EntriesWellFormedYearUnpadded ==
    exSt.phase \in {"pages", "parsed"} =>
        /\ RowsBecomeEntries
        /\ \A n \in 1..Len(exSt.entries) :
              LET entry == exSt.entries[n] IN
              \E page \in PagesRead :
                 LET fields == DateFieldsOf(page, entry.lnks_gd_url[1]) IN
                 /\ fields # <<>>
                 /\ entry.date = Decimal(fields[3]) \o <<"-">> \o TwoDigits(fields[1])
                                    \o <<"-">> \o TwoDigits(fields[2])
                 /\ fields[3] >= 1000 => IsIsoDate(entry.date)

\* C33 witness: a document of two pages was parsed; on each the first row has an
\* identifier and the date 02/30/2025, which cannot be parsed, and gives no entry; the
\* row after it gave an entry on both pages
C33_Witness ==
    /\ exSt.phase = "parsed"
    /\ Len(exSt.doc) = 2
    /\ _CSMS_ID_RE(LinkLine(exSt.doc[1], LinkNo(1), 1)) # <<>>
    /\ _DATE_RE(LinkLine(exSt.doc[1], LinkNo(1), 1)) # <<>>
    /\ _DATE_RE(LinkLine(exSt.doc[1], LinkNo(1), 1))[1].group = <<"0", "2", "/", "3", "0", "/", "2", "0", "2", "5">>
    /\ Len(exSt.result) = 2
    /\ \A n \in 1..2 : exSt.result[n].lnks_gd_url = Some(LinkNo(2))
                         /\ exSt.result[n].date = <<"2", "0", "2", "6", "-", "0", "3", "-", "0", "1">>

\* the service was called by the last classify and answered with text that is not
\* JSON or is not a JSON array
BadAnswer(call) ==
    /\ call.op = "classify"
    /\ call.answer # <<>>
    /\ ~call.answer[1].error
    /\ LET loaded == json_loads(ExtractJson(call.answer[1].text))
       IN  ~loaded.ok \/ ~IsList(loaded.val)

\* C34: when the service answers with text that is not JSON or not an array, classify
\* raises nothing, returns no records together with the token counts of the call, and
\* stores the empty list for (text, model); a classify of the same text and model that
\* follows is a cache hit: no records, no tokens, no service call.
C34_BadAnswerStoresEmptyList ==
    [][ /\ BadAnswer(last') =>
              /\ last'.raised = ""
              /\ last'.actions = <<>>
              /\ last'.input_tokens = last'.answer[1].input_tokens
              /\ last'.output_tokens = last'.answer[1].output_tokens
              /\ RecordOf(cacheDir', last'.text, last'.model, promptVersion)
                    = <<FileText(json_dumps(JArr(<<>>)))>>
              /\ get_cached(cacheDir', last'.text, last'.model, promptVersion).ret = JArr(<<>>)
        /\ (BadAnswer(last) /\ last'.op = "classify"
               /\ last'.text = last.text /\ last'.model = last.model) =>
              /\ last'.raised = ""
              /\ last'.actions = <<>>
              /\ last'.input_tokens = 0 /\ last'.output_tokens = 0
              /\ last'.svc = 0 /\ last'.answer = <<>>
              /\ cacheDir' = cacheDir
      ]_vars

\* C34 witness: the service answered "Sorry", which is no JSON; classify returned no
\* records and the 700 and 9 tokens of the call, and the record of the pair is the
\* empty list
C34_Witness ==
    /\ BadAnswer(last)
    /\ last.answer[1].text = <<<<"junk", "Sorry">>>>
    /\ last.pre = <<>>
    /\ last.actions = <<>> /\ last.raised = ""
    /\ last.input_tokens = 700 /\ last.output_tokens = 9
    /\ RecordOf(cacheDir, last.text, last.model, promptVersion)
          = <<FileText(json_dumps(JArr(<<>>)))>>

\* the positions of the history at which a record was written, and the store and key
\* of the record
Writes == {p \in 1..Len(trace) : trace[p].ev \in {"raw_write", "text_write"}}
KeyWritten(p) == IF trace[p].ev = "raw_write" THEN <<"raw", crawl_cache_key(trace[p].arg)>>
                 ELSE <<"text", trace[p].arg>>

PairsHeld == {x \in PairTriples : stored[x] # None}
KeyText(x) == x[1] \o <<"|", "|">> \o x[2]
PairCalled == <<last.text, last.model, promptVersion>>

\* C36 (as claimed): two (text, model) pairs that differ in text or in model never
\* have the same cache key, whatever the strings, those with the separator included,
\* so a lookup returns the result stored for its own pair and never that of another.
C36_PairsNeverShareKey ==
    /\ \A x \in PairsHeld, y \in PairsHeld :
          x # y => _cache_key(x[1], x[2], x[3]) # _cache_key(y[1], y[2], y[3])
    /\ last.op = "lookup" => last.ret = stored[PairCalled]

\* C36 (what the code keeps): two pairs have the same key exactly when text, separator
\* and model run together give the same string; pairs whose model names hold no "|"
\* never do, and a lookup returns a result stored under that string, its own pair's
\* when no other pair held gives the same string.
C36_PairsShareKeyWhenJoinedEqual ==
    /\ \A x \in PairTriples, y \in PairTriples :
          /\ (_cache_key(x[1], x[2], x[3]) = _cache_key(y[1], y[2], y[3]))
                <=> (KeyText(x) = KeyText(y))
          /\ (x # y /\ \A k \in 1..Len(x[2]) : x[2][k] # "|")
                /\ (\A k \in 1..Len(y[2]) : y[2][k] # "|")
                => _cache_key(x[1], x[2], x[3]) # _cache_key(y[1], y[2], y[3])
    /\ last.op = "lookup" =>
          LET same == {y \in PairsHeld : KeyText(y) = KeyText(PairCalled)}
          IN  /\ same = {} => last.ret = None
              /\ same # {} => last.ret \in {stored[y] : y \in same}
              /\ same \subseteq {PairCalled} => last.ret = stored[PairCalled]

\* C36 witness: a text that holds the separator and a text that does not are stored
\* under the same model name with different results, and the lookup of the first
\* returned its own
C36_Witness ==
    /\ last.op = "lookup"
    /\ last.text = <<"a", "|", "|", "b">> /\ last.model = <<"c">>
    /\ last.ret = JArr(<<TariffDict>>)
    /\ stored[<<<<"a">>, <<"c">>, PROMPT_VERSION>>] = JArr(<<>>)
    /\ stored[<<<<"a">>, <<"b", "|", "|", "c">>, PROMPT_VERSION>>] = None
    /\ stored[PairCalled] = JArr(<<TariffDict>>)

\* the record parses as JSON and is no array
NonArray(content) ==
    /\ content.readable /\ content.decodable
    /\ json_loads(content.toks).ok
    /\ ~IsList(json_loads(content.toks).val)

\* the last call found a record of that kind under its (text, model)
FoundNonArray(op) == last.op = op /\ last.pre # <<>> /\ NonArray(last.pre[1])
RecordNow == RecordOf(cacheDir, last.text, last.model, promptVersion)

\* C37 (as claimed): lookup returns a miss or a list; a record that parses as JSON and
\* is not an array (null, a number, an object) is a miss and is removed, so that no
\* record can make classify fail or answer from it: classify goes on as after a miss.
C37_NonArrayRecordIsMissAndRemoved ==
    /\ last.op = "lookup" => (last.ret = None \/ IsList(last.ret))
    /\ FoundNonArray("lookup") =>
          /\ last.ret = None /\ last.raised = ""
          /\ RecordNow = <<>>
    /\ FoundNonArray("classify") =>
          /\ last.raised \in {"", "EnvironmentError", "Exception"}
          /\ last.env = 1
          /\ RecordNow # <<>> => ~NonArray(RecordNow[1])

\* C37 (what the code keeps): lookup returns whatever JSON value the record holds and
\* leaves the record; null reads as a miss, and classify then calls the service and
\* replaces the record when it answers; a number makes classify raise TypeError
\* without a service call, again at every call since the record stays; an object or
\* a string is a cache hit with no records.
C37_NonArrayRecordIsReturned ==
    /\ FoundNonArray("lookup") =>
          /\ last.raised = ""
          /\ last.ret = json_loads(last.pre[1].toks).val
          /\ RecordNow = last.pre
    /\ FoundNonArray("classify") =>
          LET value == json_loads(last.pre[1].toks).val IN
          CASE value = None ->
                 /\ last.env = 1
                 /\ last.raised = "" => /\ last.svc = 1
                                        /\ RecordNow # <<>> /\ ~NonArray(RecordNow[1])
                 /\ last.raised # "" => RecordNow = last.pre
            [] value.t = "num" ->
                 /\ last.raised = "TypeError"
                 /\ last.svc = 0 /\ last.env = 0
                 /\ RecordNow = last.pre
                 /\ get_cached(cacheDir, last.text, last.model, promptVersion).ret = value
            [] OTHER ->
                 /\ last.raised = "" /\ last.actions = <<>>
                 /\ last.input_tokens = 0 /\ last.output_tokens = 0
                 /\ last.svc = 0 /\ last.env = 0
                 /\ RecordNow = last.pre

\* C37 witness: classify found the record 7 under its text and model, raised
\* TypeError, and the record is still there
C37_Witness ==
    /\ FoundNonArray("classify")
    /\ last.pre = <<FileText(json_dumps(JNum(7)))>>
    /\ last.raised = "TypeError"
    /\ RecordNow = last.pre

\* the entries of the first run that got a text, met again by the second run
Refetched ==
    IF FirstRun = <<>> THEN {}
    ELSE {n \in 1..(fetchSt.i - 1) :
             FirstRun[1].got[n].full_text \notin {NoStr, Some(<<>>)}}
ColdEntry(n) == FirstRun[1].got[n]
\* the events of the second run's iteration for an entry
WarmEvents(id) ==
    LET from == CHOOSE k \in 1..Len(trace) : trace[k].ev = "again"
    IN  SelectSeq(SubSeq(trace, from + 1, Len(trace)), LAMBDA e : e.id = id)
\* models.TradeAction.source_url as _parse_actions sets it
source_url(entry) ==
    IF entry.govdelivery_url \notin {NoStr, Some("")} THEN entry.govdelivery_url
    ELSE IF entry.lnks_gd_url \notin {NoStr, Some("")} THEN entry.lnks_gd_url
    ELSE Some("")

\* C38 (as claimed): an entry the cold run fetched with a text gets the same resolved
\* link and the same text from the second run over the caches the first left, so
\* the source link of its records is the same in both runs.
C38_SecondFetchSameResult ==
    \A n \in Refetched :
        /\ fetchSt.entries[n].govdelivery_url = ColdEntry(n).govdelivery_url
        /\ fetchSt.entries[n].full_text = ColdEntry(n).full_text
        /\ source_url(fetchSt.entries[n]) = source_url(ColdEntry(n))

\* C38 (what the code keeps): the second run answers from the text cache alone: the
\* resolved link it gives is the short link, whatever the first run resolved, and
\* the text is the first run's with "\r\n" read as "\n"; both are the first run's
\* exactly when the first GET was not redirected and the text had no "\r".
C38_SecondFetchGivesShortLink ==
    \A n \in Refetched :
        /\ fetchSt.entries[n].govdelivery_url = fetchSt.entries[n].lnks_gd_url
        /\ source_url(fetchSt.entries[n]) = fetchSt.entries[n].lnks_gd_url
        /\ fetchSt.entries[n].full_text = Some(read_text(ColdEntry(n).full_text[1]))
        /\ \A k \in 1..Len(WarmEvents(fetchSt.entries[n].csms_id)) :
              WarmEvents(fetchSt.entries[n].csms_id)[k].ev \in {"text_exists", "text_read"}

\* C38 witness: the second run has met again an entry whose short link the first run
\* resolved to another address, and gives the short link for it
C38_Witness ==
    \E n \in Refetched :
        /\ ColdEntry(n).govdelivery_url = Some(GdOf(ColdEntry(n).lnks_gd_url[1]))
        /\ fetchSt.entries[n].govdelivery_url = Some(Lnks1)
        /\ fetchSt.phase = "returned"

\* one iteration of the classification loop has been made
ClassifiedStep ==
    /\ mainSt.pc = "classify"
    /\ Len(trace') > Len(trace)
    /\ trace'[Len(trace')].ev = "classify"
\* the service was called for the entry and answered
ServiceAnswered(call) == call.answer # <<>> /\ ~call.answer[1].error
\* the entry was answered from the classification cache
FromCache(call) == call.svc = 0 /\ call.env = 0 /\ call.raised = ""
Bit(b) == IF b THEN 1 ELSE 0
\* the counters of the end of a run add up to the entries with text
StatsAddUp(st) ==
    st.status = "complete" =>
        st.cache_hits + st.new_api_calls + Len(st.classification_errors)
            = Len(st.entries_with_text)

\* C39 (as claimed): each entry answered from the cache adds one to cache_hits, each
\* entry for which the service was called and answered adds one to new_api_calls
\* and its tokens to the totals, nothing else changes the counters, and at the end
\* of a full run hits, fresh calls and classification errors add up to the entries
\* with full text.
C39_StatisticsCountWhatHappened ==
    [][ /\ ClassifiedStep =>
              /\ mainSt'.cache_hits = mainSt.cache_hits + Bit(FromCache(last'))
              /\ mainSt'.new_api_calls = mainSt.new_api_calls + Bit(ServiceAnswered(last'))
              /\ mainSt'.total_input_tokens = mainSt.total_input_tokens
                    + (IF ServiceAnswered(last') THEN last'.answer[1].input_tokens ELSE 0)
              /\ mainSt'.total_output_tokens = mainSt.total_output_tokens
                    + (IF ServiceAnswered(last') THEN last'.answer[1].output_tokens ELSE 0)
        /\ StatsAddUp(mainSt') ]_vars

\* C39 (what the code keeps): the counters count the calls of classify_entry that
\* returned: a hit adds one to cache_hits; an answer of the service adds one to
\* new_api_calls and its tokens to the totals only if classify_entry returned after
\* it; an answer without a content block raises IndexError and is counted as a
\* classification error, its tokens in no total.  The three counts add up to the
\* entries with full text at the end of a full run.
C39_StatisticsCountReturnedCalls ==
    [][ /\ ClassifiedStep =>
              LET counted == ServiceAnswered(last') /\ last'.raised = "" IN
              /\ mainSt'.cache_hits = mainSt.cache_hits + Bit(FromCache(last'))
              /\ mainSt'.new_api_calls = mainSt.new_api_calls + Bit(counted)
              /\ mainSt'.total_input_tokens = mainSt.total_input_tokens
                    + (IF counted THEN last'.answer[1].input_tokens ELSE 0)
              /\ mainSt'.total_output_tokens = mainSt.total_output_tokens
                    + (IF counted THEN last'.answer[1].output_tokens ELSE 0)
              /\ (ServiceAnswered(last') /\ ~counted) =>
                    /\ last'.answer[1].content = 0 /\ last'.raised = "IndexError"
                    /\ Len(mainSt'.classification_errors)
                          = Len(mainSt.classification_errors) + 1
        /\ StatsAddUp(mainSt') ]_vars

\* C39 witness: a full run is complete in which the service answered one entry
\* without a content block and another with a result: one fresh call is counted
C39_Witness ==
    /\ mainSt.status = "complete"
    /\ mainSt.new_api_calls = 1 /\ mainSt.cache_hits = 1
    /\ mainSt.total_input_tokens \in {700, 900}
    /\ \E k \in 1..Len(trace) : trace[k].ev = "classify" /\ trace[k].got = <<1, "IndexError">>
    /\ \E k \in 1..Len(trace) : trace[k].ev = "classify" /\ trace[k].got = <<1, "">>

\* C40 (as claimed): no step of a dry run changes the raw HTML cache, the text cache
\* or the classification cache, whatever the other flags are.
C40_DryRunLeavesCaches ==
    [][mainSt.args.dry_run => UNCHANGED <<rawCache, textCache, cacheDir>>]_vars

\* C40 (what the code keeps): no step of a dry run changes the raw HTML cache or the
\* text cache; the classification cache is left as it was unless --clear-cache is
\* given, and then its records are removed at the start of the run, before the dry
\* run ends.
C40_DryRunClearsWhenAsked ==
    [][mainSt.args.dry_run =>
          /\ UNCHANGED <<rawCache, textCache>>
          /\ cacheDir' = IF mainSt.args.clear_cache /\ mainSt.pc = "start"
                         THEN [cacheDir EXCEPT !.files = NoFiles]
                         ELSE cacheDir]_vars

\* C40 witness: a dry run with --clear-cache is over and the classification cache an
\* earlier run had filled holds no record
C40_Witness ==
    /\ mainSt.args.dry_run /\ mainSt.args.clear_cache
    /\ mainSt.status = "dry run"
    /\ cacheDir.exists /\ cacheDir.files = NoFiles
    /\ stored = StoredNothing
    /\ \E k \in 1..Len(trace) : trace[k].ev = "clear_cache"
    /\ textCache # NoFiles /\ rawCache # NoFiles

====
